---- MODULE Spec2Model ----
(***************************************************************************)
(* Verification model of metaai-api: the asynchronous video job store and  *)
(* orchestrator of api_server.py, and the media resolution engine of       *)
(* generation.py (generate_image / generate_video and the media-by-id      *)
(* polling loops) together with the page-scrape loop of html_scraper.py.   *)
(*                                                                         *)
(* The specifications share the variables:                                 *)
(*   SpecJobs    - the HTTP front-end's job table and its background tasks *)
(*   SpecMedia   - one generation call and its resolution loop             *)
(*   SpecAuth    - one call of _check_response_for_auth_error              *)
(*   SpecServer  - the synchronous endpoints, _refresh_loop and the lock   *)
(*   SpecClient  - one construction of MetaAI, and the TokenCache's seed   *)
(*   SpecDecoder - one call of _parse_response                             *)
(*   SpecUpload  - one image upload                                        *)
(*   SpecBuilder - one request built by generate_image / generate_video    *)
(*   SpecCalls   - one remote call and the handling of its response        *)
(*   SpecStore   - JobStore and its lock under concurrent coroutines       *)
(*   SpecSse     - one call of _parse_sse_response, line by line           *)
(*   SpecCorr    - the correlation identifiers of the requests built       *)
(*   SpecWrap    - one call of generate_image_new / generate_video_new     *)
(*   SpecVreq    - one VideoRequest through /video or /video/async         *)
(*   SpecChat    - one call of MetaAI.prompt with its retries              *)
(*   SpecXtr     - one call of extract_media_urls                          *)
(***************************************************************************)
EXTENDS Integers, Sequences, FiniteSets, TLC

(***************************************************************************)
(* Bounds of the model.                                                    *)
(***************************************************************************)
MaxJobs == 2

(***************************************************************************)
(* Values.                                                                 *)
(***************************************************************************)
Null == "null"
\* A URL value that is not a string (a JSON number or object): the polling
\* loops accept any truthy value as a URL.
NonStringUrl == "#non-string"
MediaIds == {"a", "b"}
UrlOf(i) == "https://cdn/" \o i
\* The URL lists a generation call hands to generate_video_new in the job model.
JobUrlLists ==
    {<< >>, <<Null>>, <<UrlOf("a")>>, <<UrlOf("a"), UrlOf("b")>>,
     <<NonStringUrl>>, <<UrlOf("a"), NonStringUrl>>}

SeqsUpTo(S, n) == UNION {[1..k -> S] : k \in 0..n}
Range(s) == {s[k] : k \in DOMAIN s}
Min(x, y) == IF x <= y THEN x ELSE y

VARIABLES
    \* ---- api_server.py ----
    jobs,        \* JobStore._jobs: job id -> JobStatus record
    task,        \* position of the background task _run_video_job of each job id
    genRes,      \* the value generate_video_new returned to each job's task
    metaAi,      \* _meta_ai_instance: "none" or "ready"
    cache,       \* TokenCache: [cookies, last_refresh]
    now,         \* wall clock (time.time())
    submitted,   \* job ids returned by POST /video/async so far
    lookup,      \* the last answer of GET /video/jobs/{id}
    \* ---- generation.py: one generation call ----
    gKind,       \* "video" (generate_video) or "image" (generate_image)
    gPc,         \* "submit", "polling", "returned", "raised"
    gObjects,    \* result['video_objects'] / result['image_objects'] as decoded
    gUrls,       \* result['videos'] / result['images']: the URLs of the result
    prov,        \* the provider: media id -> URL, Null while not rendered
    \* ---- generation.py: fetch_video_urls_by_media_id / fetch_image_urls_by_media_id ----
    rIds,        \* video_ids / image_ids
    rMax,        \* max_attempts
    rWait,       \* wait_seconds
    rPc,         \* "idle", "poll", "sleep", "done"
    rAttempt,    \* attempt
    rItems,      \* the local list videos / images
    rDefined,    \* 'videos' in locals()
    rReturn,     \* the returned list
    rQueries,    \* number of fetch_media_by_id calls made
    rSlept,      \* the delays slept so far, in half seconds
    rHist,       \* what the run has seen so far (a record, see HistInit)
    \* ---- html_scraper.py: fetch_video_urls_from_page ----
    sPc,         \* "idle", "fetch", "sleep", "done"
    sMax,        \* max_attempts
    sAttempt,    \* attempt (the number of page fetches started)
    sResult,     \* the returned list of URLs
    \* ---- generation.py / main.py: _check_response_for_auth_error ----
    auth,        \* one call: [pc, status, body, result]
    \* ---- api_server.py: synchronous endpoints and _refresh_loop ----
    token,       \* _meta_ai_instance.access_token: 0 is None, n > 0 the n-th token
    lock,        \* TokenCache._lock: "free", or the coroutine holding it
    loopPc,      \* position of _refresh_loop
    req,         \* the request being served by /image, /video or /upload
    races,       \* accesses to shared credentials made without holding the lock
    loopThread,  \* the coroutine the event-loop thread runs without suspending, or "none"
    dep,         \* the calls of get_cookies() so far: [calls, last, at, raised]
    \* ---- main.py: MetaAI.__init__, and TokenCache.load_seed ----
    client,      \* one construction: [pc, explicit, env, cookies, source, ...]
    \* ---- generation.py: _parse_response ----
    dec,         \* one decoding: [pc, status, transport, boundary, body, result]
    \* ---- main.py / image_upload.py: upload_image ----
    upl,         \* one upload: [pc, entry, cookie, file, attempt, result, ...]
    \* ---- generation.py: _build_base_variables, generate_image / generate_video ----
    bld,         \* one request being built: [pc, kind, prompt, orientation, opts, ...]
    \* ---- generation.py / html_scraper.py: one remote call and its handling ----
    call,        \* [pc, site, status, body, outcome]
    \* ---- api_server.py: JobStore, its lock and the coroutines using it ----
    store,       \* [jobs, lock, pc, op, local, want, seen, clock]
    \* ---- generation.py: _parse_sse_response ----
    sse,         \* one decoding of an event stream: [pc, lines, next, result, ...]
    \* ---- generation.py: _build_base_variables, the correlation identifiers ----
    corr,        \* the requests built so far: [clock, fresh, reqs, sent]
    \* ---- main.py: generate_image_new / generate_video_new ----
    wrap,        \* one call: [pc, kind, status, transport, boundary, body, ...]
    \* ---- api_server.py: /video and /video/async with a VideoRequest ----
    vreq,        \* one video request: [pc, ep, max_attempts, wait_seconds, ...]
    \* ---- main.py: MetaAI.prompt and MetaAI.retry ----
    chat,        \* one prompt: [pc, attempts, sends, slept]
    \* ---- generation.py: extract_media_urls ----
    xtr          \* one extraction: [pc, response, result]

jobVars == <<jobs, task, genRes, metaAi, cache, now, submitted, lookup>>
genVars == <<gKind, gPc, gObjects, gUrls>>
loopVars == <<rIds, rMax, rWait, rPc, rAttempt, rItems, rDefined, rReturn,
              rQueries, rSlept, rHist>>
scrapeVars == <<sPc, sMax, sAttempt, sResult>>
mediaVars == <<genVars, prov, loopVars, scrapeVars>>
serverVars == <<token, lock, loopPc, req, races, loopThread, dep>>
earlyVars == <<auth, serverVars, client, dec, upl, bld, call>>
lateVars == <<store, sse, corr, wrap, vreq, chat, xtr>>
extVars == <<earlyVars, lateVars>>
vars == <<jobVars, mediaVars, extVars>>

(***************************************************************************)
(* JobStatus and JobStore (api_server.py).                                 *)
(***************************************************************************)
JobIds == 1..MaxJobs
\* Ids a client may ask for: every id the store can generate and one that is
\* never generated.
UnknownId == 0
LookupIds == JobIds \cup {UnknownId}

NoResult == [success |-> FALSE, video_urls |-> <<>>, error |-> "<no result>"]
NoError == Null
Terminal == {"succeeded", "failed"}

\* JobStatus(job_id, status="pending", created_at=now, updated_at=now)
NewJob(t) ==
    [status |-> "pending", created_at |-> t, updated_at |-> t,
     result |-> NoResult, error |-> NoError]

\* JobStore.create: the record is stored under a fresh uuid4 id.
JobStoreCreate(js, j, t) ==
    [k \in DOMAIN js \cup {j} |-> IF k = j THEN NewJob(t) ELSE js[k]]

\* JobStore._update with status=..., keeping the other fields.
UpdateStatus(js, j, st, t) ==
    [js EXCEPT ![j] = [@ EXCEPT !.status = st, !.updated_at = t]]

SetRunningSkipped(js, j, t) == js

\* JobStore.set_running
SetRunning(js, j, t) == UpdateStatus(js, j, "running", t)

\* JobStore.set_result: status="succeeded", result=result, error=None
SetResult(js, j, r, t) ==
    [js EXCEPT ![j] = [@ EXCEPT !.status = "succeeded", !.result = r,
                                !.error = NoError, !.updated_at = t]]

\* JobStore.set_error: status="failed", error=error
SetError(js, j, e, t) ==
    [js EXCEPT ![j] = [@ EXCEPT !.status = "failed", !.error = e,
                                !.updated_at = t]]

JobStoreGetDefaulting(js, j) ==
    IF j \in DOMAIN js
    THEN [found |-> TRUE, job |-> js[j]]
    ELSE [found |-> TRUE, job |-> NewJob(0)]

\* JobStore.get: KeyError for an id that is not in the table.
JobStoreGet(js, j) ==
    IF j \in DOMAIN js
    THEN [found |-> TRUE, job |-> js[j]]
    ELSE [found |-> FALSE, job |-> NewJob(0)]

(***************************************************************************)
(* MetaAI.generate_video_new (main.py): the value handed to the job.       *)
(***************************************************************************)
\* video_urls = [vid.get('url') for vid in video_urls if vid.get('url')]
\* applied to the URL values of the resolved items; "raised" is the message of
\* an exception of generate_video (Null when it returned).
GenerateVideoNew(raised, urls) ==
    IF raised # Null
    THEN [success |-> FALSE, video_urls |-> <<>>, error |-> raised]
    ELSE [success |-> TRUE, video_urls |-> SelectSeq(urls, LAMBDA u : u # Null),
          error |-> ""]

GenErrors == {"Authentication failed"}

\* Every value generate_video_new can return within the bounds.
GenResults ==
    {GenerateVideoNew(r, us) : r \in GenErrors \cup {Null},
                               us \in JobUrlLists}

(***************************************************************************)
(* _run_video_job, lines 508-528: what the task does with the result.      *)
(* kind "raise" is the exception of url[:150] on a URL that is no string.  *)
(***************************************************************************)
NoUrlsMessage == "Video generation completed but no video URLs were found"

JobOutcomeFlagOnly(r) ==
    IF r.success
    THEN [kind |-> "result", error |-> NoError]
    ELSE [kind |-> "error", error |-> r.error]

JobOutcome(r) ==
    IF r.success /\ Len(r.video_urls) > 0
    THEN IF \E k \in DOMAIN r.video_urls : r.video_urls[k] = NonStringUrl
         THEN [kind |-> "raise", error |-> "TypeError"]
         ELSE [kind |-> "result", error |-> NoError]
    ELSE IF ~ r.success
         THEN [kind |-> "error", error |-> r.error]
         ELSE [kind |-> "error", error |-> NoUrlsMessage]

(***************************************************************************)
(* TokenCache.refresh_if_needed (force=True): MetaAI(cookies=...) either   *)
(* returns and the cache takes its cookies, or raises and the exception is *)
(* re-raised to the caller.                                                *)
(***************************************************************************)
RefreshForcedClearing(c, ok, t) ==
    IF ok
    THEN [cookies |-> "refreshed", last_refresh |-> t]
    ELSE [cookies |-> "none", last_refresh |-> t]

RefreshForced(c, ok, t) ==
    IF ok
    THEN [cookies |-> "refreshed", last_refresh |-> t]
    ELSE c

(***************************************************************************)
(* Initial state of the front-end: after _startup.                         *)
(***************************************************************************)
\* No call of the other components is under way.
AuthIdle == [pc |-> "idle", status |-> 0, body |-> << >>, result |-> FALSE]
ReqIdle == [pc |-> "idle", ep |-> "none", status |-> 0, success |-> FALSE,
            error |-> "none", authDetected |-> FALSE, refresh |-> "none"]
DepIdle == [calls |-> 0, last |-> "none", at |-> 0, raised |-> FALSE]
ServerIdle ==
    /\ token = 0 /\ lock = "free" /\ loopPc = "off" /\ req = ReqIdle /\ races = {}
    /\ loopThread = "none" /\ dep = DepIdle
ClientIdle == [pc |-> "idle"]
DecIdle == [pc |-> "idle"]
UplIdle == [pc |-> "idle"]
BldIdle == [pc |-> "idle"]
CallIdle == [pc |-> "idle"]
StoreIdle == [pc |-> "idle"]
SseIdle == [pc |-> "idle"]
CorrIdle == [pc |-> "idle"]
WrapIdle == [pc |-> "idle"]
VreqIdle == [pc |-> "idle"]
ChatIdle == [pc |-> "idle"]
XtrIdle == [pc |-> "idle"]
EarlyIdle ==
    /\ auth = AuthIdle
    /\ ServerIdle
    /\ client = ClientIdle
    /\ dec = DecIdle
    /\ upl = UplIdle
    /\ bld = BldIdle
    /\ call = CallIdle
LateIdle ==
    /\ store = StoreIdle
    /\ sse = SseIdle
    /\ corr = CorrIdle
    /\ wrap = WrapIdle
    /\ vreq = VreqIdle
    /\ chat = ChatIdle
    /\ xtr = XtrIdle
ExtIdle == EarlyIdle /\ LateIdle

MediaIdle ==
    /\ gKind = "video" /\ gPc = "returned" /\ gObjects = << >> /\ gUrls = << >>
    /\ prov = [i \in MediaIds |-> Null]
    /\ rIds = << >> /\ rMax = 1 /\ rWait = 0 /\ rPc = "idle" /\ rAttempt = 0
    /\ rItems = << >> /\ rDefined = FALSE /\ rReturn = << >>
    /\ rQueries = 0 /\ rSlept = << >>
    /\ rHist = [clean |-> TRUE, failed |-> FALSE, seen |-> {}, since |-> 0,
                revisited |-> FALSE]
    /\ sPc = "idle" /\ sMax = 1 /\ sAttempt = 0 /\ sResult = << >>

\* The job table is empty and no task runs.
JobsIdle ==
    /\ jobs = << >>
    /\ task = [j \in {1} |-> "none"]
    /\ genRes = << >>
    /\ metaAi = "ready"
    /\ cache = [cookies |-> "seed", last_refresh |-> 0]
    /\ now = 0
    /\ submitted = {}
    /\ lookup = [id |-> 0, code |-> 0, known |-> FALSE]

InitJobs ==
    /\ jobs = << >>
    /\ task = [j \in JobIds |-> "none"]
    /\ genRes = [j \in JobIds |-> NoResult]
    /\ metaAi \in {"none", "ready"}
    /\ cache = [cookies |-> "seed", last_refresh |-> 0]
    /\ now = 0
    /\ submitted = {}
    /\ lookup = [id |-> UnknownId, code |-> 0, known |-> FALSE]
    /\ MediaIdle
    /\ ExtIdle

\* POST /video/async: jobs.create(), create_task(_run_video_job), answer.
VideoAsync(j) ==
    /\ j \in JobIds
    /\ j \notin DOMAIN jobs
    /\ jobs' = JobStoreCreate(jobs, j, now)
    /\ task' = [task EXCEPT ![j] = "created"]
    /\ submitted' = submitted \cup {j}
    /\ UNCHANGED <<genRes, metaAi, cache, now, lookup, mediaVars, extVars>>

\* _run_video_job, line 493: await jobs.set_running(job_id)
RunSetRunning(j) ==
    /\ task[j] = "created"
    /\ jobs' = SetRunning(jobs, j, now)
    /\ task' = [task EXCEPT ![j] = "check"]
    /\ UNCHANGED <<genRes, metaAi, cache, now, submitted, lookup, mediaVars, extVars>>

\* _run_video_job, lines 495-498: no client instance -> set_error and return.
RunCheckInstance(j) ==
    /\ task[j] = "check"
    /\ IF metaAi = "none"
       THEN /\ jobs' = SetError(jobs, j, "MetaAI instance not initialized yet", now)
            /\ task' = [task EXCEPT ![j] = "done"]
       ELSE /\ jobs' = jobs
            /\ task' = [task EXCEPT ![j] = "calling"]
    /\ UNCHANGED <<genRes, metaAi, cache, now, submitted, lookup, mediaVars, extVars>>

\* _run_video_job, lines 499-530: the generation call returns r.
RunGenerationReturns(j, r) ==
    /\ task[j] = "calling"
    /\ r \in GenResults
    /\ genRes' = [genRes EXCEPT ![j] = r]
    /\ LET o == JobOutcome(r) IN
         CASE o.kind = "result" ->
                /\ jobs' = SetResult(jobs, j, r, now)
                /\ task' = [task EXCEPT ![j] = "done"]
           [] o.kind = "error" ->
                /\ jobs' = SetError(jobs, j, o.error, now)
                /\ task' = [task EXCEPT ![j] = "done"]
           [] o.kind = "raise" ->
                /\ jobs' = jobs
                /\ task' = [task EXCEPT ![j] = "except"]
    /\ UNCHANGED <<metaAi, cache, now, submitted, lookup, mediaVars, extVars>>

\* _run_video_job, line 531: await cache.refresh_after_error(). A refresh that
\* fails re-raises (force=True): the exception leaves _run_video_job.
RunRefreshAfterError(j, ok) ==
    /\ task[j] = "except"
    /\ cache' = RefreshForced(cache, ok, now)
    /\ task' = [task EXCEPT ![j] = IF ok THEN "seterr" ELSE "crashed"]
    /\ UNCHANGED <<jobs, genRes, metaAi, now, submitted, lookup, mediaVars, extVars>>

\* _run_video_job, line 532: await jobs.set_error(job_id, str(exc))
RunSetError(j) ==
    /\ task[j] = "seterr"
    /\ jobs' = SetError(jobs, j, "TypeError", now)
    /\ task' = [task EXCEPT ![j] = "done"]
    /\ UNCHANGED <<genRes, metaAi, cache, now, submitted, lookup, mediaVars, extVars>>

\* GET /video/jobs/{job_id}: the record, or HTTP 404 on KeyError.
VideoJobStatus(id) ==
    /\ id \in LookupIds
    /\ LET g == JobStoreGet(jobs, id) IN
         lookup' = [id |-> id,
                    code |-> IF g.found THEN 200 ELSE 404,
                    known |-> id \in submitted]
    /\ UNCHANGED <<jobs, task, genRes, metaAi, cache, now, submitted, mediaVars, extVars>>

\* _refresh_loop, one iteration: forced cache refresh (a failure is logged),
\* and the client instance is recreated when it is still None.
RefreshLoop(ok, made) ==
    /\ cache' = RefreshForced(cache, ok, now)
    /\ metaAi' = IF ok /\ metaAi = "none" /\ made THEN "ready" ELSE metaAi
    /\ UNCHANGED <<jobs, task, genRes, now, submitted, lookup, mediaVars, extVars>>

NextJobs ==
    \/ \E j \in JobIds : VideoAsync(j)
    \/ \E j \in JobIds : RunSetRunning(j)
    \/ \E j \in JobIds : RunCheckInstance(j)
    \/ \E j \in JobIds, r \in GenResults : RunGenerationReturns(j, r)
    \/ \E j \in JobIds, ok \in BOOLEAN : RunRefreshAfterError(j, ok)
    \/ \E j \in JobIds : RunSetError(j)
    \/ \E id \in LookupIds : VideoJobStatus(id)
    \/ \E ok \in BOOLEAN, made \in BOOLEAN : RefreshLoop(ok, made)

SpecJobs == InitJobs /\ [][NextJobs]_vars

(***************************************************************************)
(* The media resolution engine (generation.py).                            *)
(***************************************************************************)
MaxAttempts == 3
MaxObjs == 2
MaxFeed == 1
MaxScrape == 2
\* wait_seconds values of the runs: the image default and one above the
\* image loop's ceiling.
WaitChoices == {2, 6}

\* min(wait_seconds * (1 if attempt <= 3 else 1.5 if attempt <= 8 else 2), 5)
BackoffFast == 3
BackoffMid == 8
DelayCeiling == 5

NoEntry == [id |-> Null, url |-> Null]
\* The media objects the provider can show in state p: each id with its URL
\* or, while the answer is older than the rendering, with a null URL.
Entries(p) == UNION {{[id |-> i, url |-> u] : u \in {Null, p[i]}} : i \in MediaIds}

IdsOf(items) == [k \in DOMAIN items |-> items[k].id]
IdSet(items) == {items[k].id : k \in DOMAIN items}
UrlsOfItems(items) == [k \in DOMAIN items |-> items[k].url]
Distinct(s) == \A k, l \in DOMAIN s : s[k] = s[l] => k = l

\* _parse_sse_response: an object is appended unless an equal object is
\* already in the list, so the decoded list holds no object twice.
DecodedObjectLists(p, n) == {os \in SeqsUpTo(Entries(p), n) : Distinct(os)}

\* _parse_sse_response: result['videos'] / result['images'] hold each non-null
\* URL of the objects once, in order.
RECURSIVE SseUrls(_, _)
SseUrls(objs, acc) ==
    IF objs = << >> THEN acc
    ELSE LET u == Head(objs).url IN
         SseUrls(Tail(objs),
                 IF u # Null /\ u \notin Range(acc) THEN Append(acc, u) ELSE acc)

RouteItemsUnchecked(ids, route) == IF route # NoEntry THEN <<route>> ELSE << >>

\* createRouteMedia: taken when its id is requested and its URL is set.
RouteItems(ids, route) ==
    IF route # NoEntry /\ route.id \in Range(ids) /\ route.url # Null
    THEN <<route>> ELSE << >>

ScanFeedUnfiltered(ids, acc, feed) == acc \o feed

\* The scan of mediaLibraryFeed: an entry is taken when its id is requested,
\* its URL is set and its id was not taken before (seen_ids).
RECURSIVE ScanFeed(_, _, _)
ScanFeed(ids, acc, feed) ==
    IF feed = << >> THEN acc
    ELSE LET e == Head(feed) IN
         ScanFeed(ids,
                  IF e.id \in Range(ids) /\ e.url # Null /\ e.id \notin IdSet(acc)
                  THEN Append(acc, e) ELSE acc,
                  Tail(feed))

Scan(ids, route, feed) == ScanFeed(ids, RouteItems(ids, route), feed)

\* What one fetch_media_by_id call can hand to the loop in provider state p:
\*   error     - {"error": ...} (network error, HTTP error status, undecodable
\*               body) or a JSON null / number
\*   list      - a JSON array or string instead of an object
\*   nodata    - an object whose "data" member is null
\*   ok        - an object with createRouteMedia (route) and mediaLibraryFeed
\*   scanraise - as ok, followed by an element the scan cannot read (video)
PollOutcomes(p, ids, n) ==
    {[kind |-> k, route |-> NoEntry, feed |-> << >>] : k \in {"error", "list", "nodata"}}
    \cup
    {[kind |-> k, route |-> r, feed |-> f] :
        k \in {"ok", "scanraise"},
        r \in {NoEntry} \cup {e \in Entries(p) : ids # << >> /\ e.id = ids[1]},
        f \in SeqsUpTo(Entries(p), n)}

\* The sleep before the next attempt, in half seconds. The video loop sleeps
\* wait_seconds; the image loop backs off and caps the delay.
ImageDelay2(ws, a) ==
    Min(ws * (IF a <= BackoffFast THEN 2 ELSE IF a <= BackoffMid THEN 3 ELSE 4),
        2 * DelayCeiling)
VideoDelay2(ws, a) == 2 * ws
Delay2(kind, ws, a) == IF kind = "video" THEN VideoDelay2(ws, a) ELSE ImageDelay2(ws, a)

\* if attempt < max_attempts: time.sleep(...), then the next attempt; after
\* the last attempt the loop ends.
AfterAttempt(a, max) == IF a < max THEN "sleep" ELSE "done"

OnFailedAttemptRaise(a, max) == "raised"

\* The same step in the branches of a failed attempt: 'error' in data, and
\* the except clause around the body of the loop.
OnFailedAttempt(a, max) == IF a < max THEN "sleep" ELSE "done"

\* One pass of the loop body of fetch_video_urls_by_media_id (kind "video")
\* or fetch_image_urls_by_media_id (kind "image") on outcome o.
LoopBody(kind, ids, items, defined, a, max, o) ==
    LET next  == AfterAttempt(a, max)
        fail  == OnFailedAttempt(a, max)
        keep  == [items |-> items, defined |-> defined, pc |-> fail]
        reset == [items |-> << >>, defined |-> TRUE, pc |-> fail]
        found == Scan(ids, o.route, o.feed)
    IN CASE o.kind = "error"  -> keep
         [] o.kind = "list"   -> IF kind = "video" THEN reset ELSE keep
         [] o.kind = "nodata" ->
                IF kind = "video" THEN reset
                ELSE [items |-> << >>, defined |-> TRUE, pc |-> next]
         [] o.kind = "scanraise" ->
                [items |-> found, defined |-> TRUE, pc |-> fail]
         [] o.kind = "ok" ->
                [items |-> found, defined |-> TRUE,
                 pc |-> IF Len(found) = Len(ids) THEN "done" ELSE next]

\* return videos if 'videos' in locals() else []
LoopReturn(items, defined) == IF defined THEN items ELSE << >>

\* What the run has observed of the provider: every poll so far was answered
\* faithfully (clean), some poll failed, the rendered ids at the last poll
\* (seen), the attempt at which they were first all rendered (since), and
\* whether a poll queried the first id when it was already resolved.
HistInit == [clean |-> TRUE, failed |-> FALSE, seen |-> {}, since |-> 0,
             revisited |-> FALSE]

\* The requested ids the provider has rendered.
Rendered == {i \in Range(rIds) : prov[i] # Null}

InitMedia ==
    /\ jobs = << >>
    /\ task = [j \in JobIds |-> "none"]
    /\ genRes = [j \in JobIds |-> NoResult]
    /\ metaAi = "ready"
    /\ cache = [cookies |-> "seed", last_refresh |-> 0]
    /\ now = 0
    /\ submitted = {}
    /\ lookup = [id |-> UnknownId, code |-> 0, known |-> FALSE]
    /\ gKind \in {"video", "image"}
    /\ gPc = "submit"
    /\ gObjects = << >>
    /\ gUrls = << >>
    /\ prov = [i \in MediaIds |-> Null]
    /\ rIds = << >>
    /\ rMax \in 1..MaxAttempts
    /\ rWait \in WaitChoices
    /\ rPc = "idle"
    /\ rAttempt = 0
    /\ rItems = << >>
    /\ rDefined = FALSE
    /\ rReturn = << >>
    /\ rQueries = 0
    /\ rSlept = << >>
    /\ rHist = HistInit
    /\ sPc = "idle" /\ sMax = 1 /\ sAttempt = 0 /\ sResult = << >>
    /\ ExtIdle

\* The provider finishes rendering a media item: its URL is set for good.
ProviderResolve(i) ==
    /\ gPc \in {"submit", "polling"}
    /\ prov[i] = Null
    /\ prov' = [prov EXCEPT ![i] = UrlOf(i)]
    /\ UNCHANGED <<extVars, jobVars, genVars, loopVars, scrapeVars>>

\* generate_video / generate_image up to the call of the polling loop: the
\* POST, the auth check, raise_for_status and _parse_response.
GenerateSubmit(o, objs) ==
    /\ gPc = "submit"
    /\ o \in {"auth", "http", "ok"}
    /\ objs \in DecodedObjectLists(prov, MaxObjs)
    /\ IF o # "ok"
       THEN /\ objs = << >>
            /\ gPc' = "raised"
            /\ UNCHANGED <<gObjects, gUrls, loopVars>>
       ELSE /\ gObjects' = objs
            /\ gUrls' = SseUrls(objs, << >>)
            /\ IF objs # << >>
               THEN /\ gPc' = "polling"
                    /\ rIds' = IdsOf(objs)
                    /\ rPc' = "poll"
                    /\ rAttempt' = 1
                    /\ UNCHANGED <<rMax, rWait, rItems, rDefined, rReturn,
                                   rQueries, rSlept, rHist>>
               ELSE /\ gPc' = "returned"
                    /\ UNCHANGED loopVars
    /\ UNCHANGED <<extVars, jobVars, gKind, prov, scrapeVars>>

\* One attempt of the polling loop: fetch_media_by_id(ids[0]) and the scan.
\* When the loop ends, generate_video / generate_image puts a non-empty list
\* into the result and returns.
Poll(o) ==
    /\ rPc = "poll"
    /\ o \in PollOutcomes(prov, rIds, MaxFeed)
    /\ o.kind = "scanraise" => gKind = "video"
    /\ LET b == LoopBody(gKind, rIds, rItems, rDefined, rAttempt, rMax, o)
           ret == LoopReturn(b.items, b.defined)
       IN /\ rItems' = b.items
          /\ rDefined' = b.defined
          /\ rPc' = b.pc
          /\ rQueries' = rQueries + 1
          /\ rHist' = [clean |-> /\ rHist.clean
                                 /\ o.kind = "ok"
                                 /\ IdSet(b.items) = Rendered,
                       failed |-> rHist.failed \/ o.kind # "ok",
                       seen |-> Rendered,
                       since |-> IF rQueries = 0 \/ Rendered # rHist.seen
                                 THEN rAttempt ELSE rHist.since,
                       revisited |-> \/ rHist.revisited
                                     \/ rIds[1] \in IdSet(rItems)]
          /\ IF b.pc = "done"
             THEN /\ rReturn' = ret
                  /\ gPc' = "returned"
                  /\ gUrls' = IF ret # << >> THEN UrlsOfItems(ret) ELSE gUrls
             ELSE UNCHANGED <<rReturn, gPc, gUrls>>
    /\ UNCHANGED <<extVars, jobVars, gKind, gObjects, prov, rIds, rMax, rWait, rAttempt,
                   rSlept, scrapeVars>>

\* time.sleep(delay) between two attempts.
Sleep ==
    /\ rPc = "sleep"
    /\ rSlept' = Append(rSlept, Delay2(gKind, rWait, rAttempt))
    /\ rAttempt' = rAttempt + 1
    /\ rPc' = "poll"
    /\ UNCHANGED <<extVars, jobVars, genVars, prov, rIds, rMax, rWait, rItems, rDefined,
                   rReturn, rQueries, rHist, scrapeVars>>

\* GenerationAPI.fetch_video_urls_from_html, called by client code after a
\* generation that did not resolve every id: no code of the package calls it.
ScrapeCall(m) ==
    /\ gKind = "video"
    /\ gPc = "returned"
    /\ Len(rReturn) < Len(rIds)
    /\ sPc = "idle"
    /\ m \in 1..MaxScrape
    /\ sMax' = m
    /\ sAttempt' = 1
    /\ sPc' = "fetch"
    /\ UNCHANGED <<extVars, jobVars, genVars, prov, loopVars, sResult>>

\* One attempt of MetaAIHTMLScraper.fetch_video_urls_from_page with the sleep
\* that follows it: no page, a page without video URLs, or a page with them.
ScrapeAttempt(o) ==
    /\ sPc = "fetch"
    /\ o \in {"nohtml", "novideos", "found"}
    /\ IF o = "found"
       THEN /\ \E i \in MediaIds : prov[i] # Null
            /\ sResult' = <<UrlOf(CHOOSE i \in MediaIds : prov[i] # Null)>>
            /\ sPc' = "done"
            /\ UNCHANGED sAttempt
       ELSE /\ sResult' = << >>
            /\ IF sAttempt < sMax
               THEN sAttempt' = sAttempt + 1 /\ sPc' = "fetch"
               ELSE sAttempt' = sAttempt /\ sPc' = "done"
    /\ UNCHANGED <<extVars, jobVars, genVars, prov, loopVars, sMax>>

NextMedia ==
    \/ \E i \in MediaIds : ProviderResolve(i)
    \/ \E o \in {"auth", "http", "ok"}, objs \in DecodedObjectLists(prov, MaxObjs) :
          GenerateSubmit(o, objs)
    \/ \E o \in PollOutcomes(prov, rIds, MaxFeed) : Poll(o)
    \/ Sleep
    \/ \E m \in 1..MaxScrape : ScrapeCall(m)
    \/ \E o \in {"nohtml", "novideos", "found"} : ScrapeAttempt(o)

SpecMedia == InitMedia /\ [][NextMedia]_vars

(***************************************************************************)
(* Claims about the job orchestrator (SpecJobs).                           *)
(***************************************************************************)
JobTransitions ==
    {<<"pending", "running">>, <<"running", "succeeded">>, <<"running", "failed">>}

\* The generation call of a job is in flight or has returned.
CallStarted(j) == task[j] \in {"calling", "except", "seterr", "crashed"}

\* C1: a job's status only moves pending -> running -> succeeded | failed; it
\* is running when the generation call starts and while it is in flight; a
\* terminal status is never left and status, result and error of a terminal
\* job never change again.
C1_JobLifecycle ==
    /\ [](\A j \in JobIds : CallStarted(j) => jobs[j].status = "running")
    /\ [][\A j \in DOMAIN jobs :
            /\ jobs'[j].status # jobs[j].status =>
                   <<jobs[j].status, jobs'[j].status>> \in JobTransitions
            /\ jobs[j].status \in Terminal =>
                   /\ jobs'[j].status = jobs[j].status
                   /\ jobs'[j].result = jobs[j].result
                   /\ jobs'[j].error = jobs[j].error]_vars

\* One job has succeeded and another has failed after its generation call.
C1_Witness ==
    \E j, k \in DOMAIN jobs :
        /\ jobs[j].status = "succeeded"
        /\ jobs[k].status = "failed" /\ genRes[k] # NoResult

\* C2: every job created by an async submission reaches succeeded or failed:
\* once its background task has ended, however it ended, the job is terminal.
C2_EndedTaskIsTerminal ==
    \A j \in DOMAIN jobs :
        task[j] \in {"done", "crashed"} => jobs[j].status \in Terminal

\* C3: a job is succeeded only with a result that reports success and carries
\* a non-empty list of URLs; a returned result with an empty list, or one that
\* reports success=false, makes the job failed.
C3_SucceededNeedsUrls ==
    \A j \in DOMAIN jobs :
        /\ jobs[j].status = "succeeded" =>
               /\ jobs[j].result = genRes[j]
               /\ genRes[j].success
               /\ Len(genRes[j].video_urls) > 0
        /\ (/\ task[j] = "done"
            /\ genRes[j] # NoResult
            /\ (~ genRes[j].success \/ Len(genRes[j].video_urls) = 0)) =>
               jobs[j].status = "failed"

\* A generation call reported success=true with no URL and the job is failed.
C3_Witness ==
    \E j \in DOMAIN jobs :
        /\ task[j] = "done"
        /\ genRes[j].success /\ Len(genRes[j].video_urls) = 0
        /\ jobs[j].status = "failed"

\* C4: a lookup of an id no submission returned answers 404 and never a
\* record; a lookup of a submitted id answers the record; no job is deleted.
C4_LookupNotFound ==
    /\ submitted \subseteq DOMAIN jobs
    /\ lookup.code # 0 =>
          IF lookup.known THEN lookup.code = 200 ELSE lookup.code = 404

\* An id the store could generate was looked up before any submission
\* returned it, while other jobs exist.
C4_Witness ==
    /\ lookup.code = 404
    /\ lookup.id \in JobIds
    /\ submitted # {}

(***************************************************************************)
(* Claims about the media resolution engine (SpecMedia).                   *)
\* The generation call of job j ended in the except branch of the task.
CallRaised(j) == genRes[j] # NoResult /\ JobOutcome(genRes[j]).kind = "raise"

\* C28: the generation call of a job is entered once, from the check of the
\* client instance, and never again after the refresh that follows a failed
\* call; the failure of the call is reported in the job.
C28_NoRetryAfterRefresh ==
    /\ [][\A j \in JobIds : (task'[j] = "calling" /\ task[j] # "calling") =>
              task[j] = "check"]_vars
    /\ [](\A j \in DOMAIN jobs :
              (task[j] \in {"done", "crashed"} /\ CallRaised(j)) =>
                  (jobs[j].status = "failed" /\ jobs[j].error # NoError))

(***************************************************************************)
\* The run is over and every poll of it was answered with a well-formed feed
\* showing every requested id the provider had rendered.
CleanRunDone == rPc = "done" /\ rHist.clean

C6_StopsWhenAllResolved ==
    /\ (rHist.clean /\ rQueries > 0 /\ rPc \in {"sleep", "poll"}) =>
           IdSet(rItems) # Range(rIds)
    /\ rPc = "done" => (Len(rReturn) = Len(rIds) \/ rQueries = rMax)

\* Every object of the decoded initial response carries a URL.
AllInline == gObjects # << >> /\ \A k \in DOMAIN gObjects : gObjects[k].url # Null

\* C7: when the initial response carries a URL for every id it lists, the
\* generation returns without a media-by-id poll and without a wait.
C7_FastPath ==
    AllInline => (rQueries = 0 /\ rSlept = << >>)

\* C8: the delays slept between attempts never decrease and never exceed the
\* ceiling.
C8_BackoffBounded ==
    \A k \in DOMAIN rSlept :
        /\ rSlept[k] <= 2 * DelayCeiling
        /\ k > 1 => rSlept[k - 1] <= rSlept[k]

\* C9: a failed poll attempt never raises to the caller and never ends the
\* loop: the loop ends only with every requested item found or with
\* max_attempts queries made.
C9_FailedPollContinues ==
    /\ rPc \in {"idle", "poll", "sleep", "done"}
    /\ rPc = "done" => (Len(rReturn) = Len(rIds) \/ rQueries = rMax)
    /\ rQueries <= rMax

\* A poll failed and the run still went on to resolve every requested id.
C9_Witness ==
    /\ rPc = "done"
    /\ rHist.failed
    /\ rIds # << >>
    /\ Len(rReturn) = Len(rIds)

\* C10: for video, once primary resolution has used up its attempts without
\* resolving the ids, the page-scrape fallback has been started.
C10_FallbackAfterExhaustion ==
    (/\ gKind = "video"
     /\ gPc = "returned"
     /\ rIds # << >>
     /\ rQueries = rMax
     /\ Len(rReturn) < Len(rIds)) => sPc # "idle"

\* C24: within a run an id found with its URL stays found: the items of an
\* attempt are still there after every later attempt, and they are part of
\* the returned list.
C24_ResolvedStaysResolved ==
    [][rPc = "poll" =>
          /\ Range(rItems) \subseteq Range(rItems')
          /\ rPc' = "done" => Range(rItems) \subseteq Range(rReturn')]_vars

\* C25: the decoded placeholder list holds each media id once, so the ids
\* handed to the resolution loop are as many as the media items announced.
C25_PlaceholderIdsOnce ==
    gPc \in {"polling", "returned"} =>
        /\ Distinct(IdsOf(gObjects))
        /\ Len(rIds) = Cardinality(IdSet(gObjects))

\* C26: every returned item has a requested id and a URL, and no id is
\* returned twice.
C26_ReturnedItemsRequested ==
    rPc = "done" =>
        /\ \A k \in DOMAIN rReturn :
              rReturn[k].id \in Range(rIds) /\ rReturn[k].url # Null
        /\ Distinct(IdsOf(rReturn))

\* A run has returned an item while the provider also holds rendered media
\* that were not requested.
C26_Witness ==
    /\ rPc = "done"
    /\ rReturn # << >>
    /\ \E i \in MediaIds \ Range(rIds) : prov[i] # Null

(***************************************************************************)
(* Auth-failure detection (generation.py and main.py,                      *)
(* _check_response_for_auth_error).                                        *)
(*                                                                         *)
(* A response body is a sequence of words. A word is one of the phrases of *)
(* error_indicators, or other text, written in some letter case; the       *)
(* phrase of a word is its text with the case of the letters left aside.   *)
(***************************************************************************)
MaxBody == 2

AuthPhrases == {"access token required", "authentication", "unauthorized",
                "invalid session", "session expired"}
OtherText == "ok"
Casings == {"lower", "capitalized", "upper"}
Words == [phrase : AuthPhrases \cup {OtherText}, casing : Casings]
StatusCodes == {200, 403, 500}

\* error_indicators, as the source writes them: the first entry begins with
\* a capital letter, the others are in lower case.
ErrorIndicators ==
    << [phrase |-> "access token required", casing |-> "capitalized"],
       [phrase |-> "authentication", casing |-> "lower"],
       [phrase |-> "unauthorized", casing |-> "lower"],
       [phrase |-> "invalid session", casing |-> "lower"],
       [phrase |-> "session expired", casing |-> "lower"] >>

\* str.lower()
Lower(body) == [k \in DOMAIN body |-> [body[k] EXCEPT !.casing = "lower"]]

\* indicator in response_lower
Contains(body, w) == \E k \in DOMAIN body : body[k] = w

\* status 403, or a non-empty body whose lowered text holds an indicator.
CheckResponseForAuthError(status, body) ==
    IF status = 403 THEN TRUE
    ELSE /\ body # << >>
         /\ \E i \in DOMAIN ErrorIndicators :
               Contains(Lower(body), ErrorIndicators[i])

InitAuth ==
    /\ JobsIdle
    /\ MediaIdle
    /\ LateIdle
    /\ bld = BldIdle
    /\ call = CallIdle
    /\ auth \in [pc : {"given"}, status : StatusCodes,
                 body : SeqsUpTo(Words, MaxBody), result : {FALSE}]
    /\ ServerIdle
    /\ client = ClientIdle
    /\ dec = DecIdle
    /\ upl = UplIdle

CheckAuth ==
    /\ auth.pc = "given"
    /\ auth' = [auth EXCEPT !.pc = "checked",
                            !.result = CheckResponseForAuthError(auth.status, auth.body)]
    /\ UNCHANGED <<jobVars, mediaVars, lateVars, bld, call, serverVars, client, dec, upl>>

NextAuth == CheckAuth

SpecAuth == InitAuth /\ [][NextAuth]_vars

\* The body holds one of the auth-failure phrases, in whatever letter case.
HasAuthPhrase(body) == \E k \in DOMAIN body : body[k].phrase \in AuthPhrases

\* C11: detection answers true for status 403 and for a body holding any of
\* the auth-failure phrases in any letter case, and false for status 200 with
\* a body holding none of them.
C11_DetectsAuthFailure ==
    auth.pc = "checked" =>
        /\ (auth.status = 403 \/ HasAuthPhrase(auth.body)) => auth.result
        /\ (auth.status = 200 /\ ~ HasAuthPhrase(auth.body)) => ~ auth.result

(***************************************************************************)
(* The synchronous endpoints /image, /video and /upload of api_server.py,  *)
(* with the background coroutine _refresh_loop and the lock of TokenCache. *)
(* The generation and upload calls run in pool threads, beside the event   *)
(* loop; the handlers and _refresh_loop are coroutines of the event loop.  *)
(***************************************************************************)
MaxToken == 2
MaxClock == 2
MaxCalls == 2

Endpoints == {"image", "video", "upload"}
\* What generate_image_new / generate_video_new return for the provider's
\* answer: "ok" a decoded answer, "auth" an answer detected as an auth
\* failure, "http" an error status. generate_image / generate_video raise on
\* the last two, and generate_*_new catch every exception.
GenOutcomes == {"ok", "auth", "http"}
AuthFailedError == "Authentication failed"
HttpError == "HTTP error"
UploaderArgumentsError == "TypeError: __init__() takes 3 positional arguments but 4 were given"
TimeoutErrorText == "generation timeout"
InternalServerError == "Internal server error"
NotInitialized == "MetaAI instance not initialized"

\* The dict generate_image_new / generate_video_new hand to the endpoint.
GenerateNew(o) ==
    [success |-> o = "ok",
     error |-> IF o = "ok" THEN "none"
               ELSE IF o = "auth" THEN AuthFailedError ELSE HttpError]

\* return cast(Dict, result): the dict is the body of an HTTP 200 answer.
AnswerResult(r, ep, o) ==
    [r EXCEPT !.pc = "answered", !.status = 200, !.success = GenerateNew(o).success,
              !.error = GenerateNew(o).error, !.authDetected = (o = "auth")]

\* JSONResponse(status_code=..., content={"success": False, "error": ...})
AnswerError(r, code, e) ==
    [r EXCEPT !.pc = "answered", !.status = code, !.success = FALSE, !.error = e]

\* An access to a shared credential by coroutine or thread who: it is
\* recorded when who does not hold the lock.
Access(who, what, op) ==
    IF lock = who THEN races ELSE races \cup {[who |-> who, what |-> what, op |-> op]}

InitServer ==
    /\ jobs = << >>
    /\ task = [j \in JobIds |-> "none"]
    /\ genRes = [j \in JobIds |-> NoResult]
    /\ metaAi \in {"none", "ready"}
    /\ cache = [cookies |-> "seed", last_refresh |-> 0]
    /\ now \in 1..MaxClock
    /\ submitted = {}
    /\ lookup = [id |-> UnknownId, code |-> 0, known |-> FALSE]
    /\ MediaIdle
    /\ LateIdle
    /\ bld = BldIdle
    /\ call = CallIdle
    /\ auth = AuthIdle
    /\ client = ClientIdle
    /\ dec = DecIdle
    /\ upl = UplIdle
    /\ token \in 0..1
    /\ metaAi = "none" => token = 0
    /\ lock = "free"
    /\ loopPc = "boot"
    /\ req = ReqIdle
    /\ races = {}
    /\ loopThread = "none"
    /\ dep = DepIdle

\* A request arrives: 503 while there is no client instance, else the call
\* is handed to a pool thread under asyncio.wait_for.
SrvRequest(ep) ==
    /\ loopThread = "none"
    /\ req.pc \in {"idle", "answered"}
    /\ req' = IF metaAi = "none"
              THEN AnswerError([ReqIdle EXCEPT !.ep = ep], 503, NotInitialized)
              ELSE [ReqIdle EXCEPT !.pc = "running", !.ep = ep]
    /\ UNCHANGED <<jobVars, mediaVars, lateVars, bld, call, auth, client, dec, upl, dep,
                   loopThread, token, lock, loopPc, races>>

\* /image, /video: generate_image_new / generate_video_new returns its dict.
SrvGenerationReturns(o) ==
    /\ loopThread = "none"
    /\ req.pc = "running"
    /\ req.ep \in {"image", "video"}
    /\ req' = AnswerResult(req, req.ep, o)
    /\ UNCHANGED <<jobVars, mediaVars, lateVars, bld, call, auth, client, dec, upl, dep,
                   loopThread, token, lock, loopPc, races>>

\* except asyncio.TimeoutError: the call exceeded the ceiling of wait_for.
SrvTimeout ==
    /\ loopThread = "none"
    /\ req.pc = "running"
    /\ req' = AnswerError(req, 504, TimeoutErrorText)
    /\ UNCHANGED <<jobVars, mediaVars, lateVars, bld, call, auth, client, dec, upl, dep,
                   loopThread, token, lock, loopPc, races>>

\* /upload: MetaAI.upload_image reads self.access_token in the pool thread
\* and calls ImageUploader(session, cookies, access_token), which raises
\* TypeError; the handler's except branch goes to cache.refresh_after_error().
SrvUploadRaises ==
    /\ loopThread = "none"
    /\ req.pc = "running"
    /\ req.ep = "upload"
    /\ races' = Access("request", "token", "read")
    /\ req' = [req EXCEPT !.pc = "refresh", !.error = UploaderArgumentsError]
    /\ UNCHANGED <<jobVars, mediaVars, lateVars, bld, call, auth, client, dec, upl, dep,
                   loopThread, token, lock, loopPc>>

\* refresh_if_needed(force=True): async with self._lock, then MetaAI(...) is
\* called, not awaited: the coroutine keeps the event-loop thread from here
\* until the body is over.
SrvRefreshAcquire ==
    /\ loopThread = "none"
    /\ req.pc = "refresh"
    /\ lock = "free"
    /\ lock' = "request"
    /\ loopThread' = "request"
    /\ req' = [req EXCEPT !.pc = "locked"]
    /\ UNCHANGED <<jobVars, mediaVars, lateVars, bld, call, auth, client, dec, upl, dep,
                   token, loopPc, races>>

\* The body of refresh_if_needed and what follows it in the handler: after a
\* refresh the JSONResponse 500 with str(exc); a failed forced refresh is
\* re-raised out of the handler to general_exception_handler.
SrvRefreshBody(ok) ==
    /\ loopThread = "request"
    /\ req.pc = "locked"
    /\ cache' = RefreshForced(cache, ok, now)
    /\ races' = Access("request", "cookies", "write")
    /\ lock' = "free"
    /\ loopThread' = "none"
    /\ req' = IF ok
              THEN [AnswerError(req, 500, req.error) EXCEPT !.refresh = "done"]
              ELSE [AnswerError(req, 500, InternalServerError) EXCEPT !.refresh = "failed"]
    /\ UNCHANGED <<jobs, task, genRes, metaAi, now, submitted, lookup, mediaVars, lateVars,
                   bld, call, auth, client, dec, upl, dep, token, loopPc>>

\* REFRESH_SECONDS, with the interval as the unit of the clock.
RefreshSeconds == 1

\* refresh_if_needed(force): the throttle test, then the derivation.
RefreshIfNeeded(c, force, ok, t) ==
    IF ~ force /\ (t - c.last_refresh) < RefreshSeconds THEN c
    ELSE RefreshForced(c, ok, t)

\* What a call of refresh_if_needed(force=False) did: nothing, a derivation,
\* or a derivation that raised inside the try.
NonForcedOutcome(c, ok, t) ==
    IF (t - c.last_refresh) < RefreshSeconds THEN "skipped"
    ELSE IF ok THEN "derived" ELSE "failed"

\* except Exception: ... if force: raise
RefreshRaises(force, ok) == force /\ ~ ok

\* get_cookies(): refresh_if_needed() without force, then snapshot(). The
\* lock is free whenever the event-loop thread is, and nothing in the body
\* suspends, so the call runs in one piece.
GetCookiesCall(ok) ==
    /\ loopThread = "none"
    /\ lock = "free"
    /\ dep.calls < MaxCalls
    /\ cache' = RefreshIfNeeded(cache, FALSE, ok, now)
    /\ dep' = [calls |-> dep.calls + 1,
               last |-> NonForcedOutcome(cache, ok, now),
               at |-> IF NonForcedOutcome(cache, ok, now) = "skipped" THEN dep.at ELSE now,
               raised |-> RefreshRaises(FALSE, ok)]
    /\ UNCHANGED <<jobs, task, genRes, metaAi, now, submitted, lookup, mediaVars, lateVars,
                   bld, call, auth, client, dec, upl, loopThread, token, lock,
                   loopPc, req, races>>

\* time.time() moves on.
Tick ==
    /\ now < MaxClock
    /\ now' = now + 1
    /\ UNCHANGED <<jobs, task, genRes, metaAi, cache, submitted, lookup, mediaVars, lateVars,
                   extVars>>

\* _refresh_loop before its while loop: with no instance, MetaAI() is tried
\* again; with an instance without token, the token is extracted again.
LoopBoot(made, t) ==
    /\ loopThread = "none"
    /\ loopPc = "boot"
    /\ t \in {0, 1}
    /\ IF metaAi = "none"
       THEN /\ metaAi' = IF made THEN "ready" ELSE "none"
            /\ token' = IF made THEN t ELSE token
            /\ races' = races
       ELSE /\ metaAi' = metaAi
            /\ made
            /\ token' = IF token = 0 THEN t ELSE token
            /\ races' = IF token = 0 THEN Access("loop", "token", "write") ELSE races
    /\ loopPc' = "start"
    /\ UNCHANGED <<jobs, task, genRes, cache, now, submitted, lookup, mediaVars, lateVars,
                   bld, call, auth, client, dec, upl, dep, loopThread, lock, req>>

\* while True: cache.refresh_if_needed(force=True): async with self._lock;
\* from here to the sleep the loop keeps the event-loop thread.
LoopAcquire ==
    /\ loopThread = "none"
    /\ loopPc = "start"
    /\ lock = "free"
    /\ lock' = "loop"
    /\ loopThread' = "loop"
    /\ loopPc' = "locked"
    /\ UNCHANGED <<jobVars, mediaVars, lateVars, bld, call, auth, client, dec, upl, dep,
                   token, req, races>>

\* A variant without the except of the while loop.
LoopAfterRefreshUncaught(ok) == IF ok THEN "token" ELSE "crashed"

\* try: await cache.refresh_if_needed(force=True) ... except Exception: the
\* position of the loop after the refresh returned (ok) or raised.
LoopAfterRefresh(ok) == IF ok THEN "token" ELSE "failed"

\* The body of refresh_if_needed; a failed forced refresh is re-raised and
\* caught by the except of the while loop.
LoopRefreshBody(ok) ==
    /\ loopThread = "loop"
    /\ loopPc = "locked"
    /\ cache' = RefreshForced(cache, ok, now)
    /\ races' = Access("loop", "cookies", "write")
    /\ lock' = "free"
    /\ loopPc' = LoopAfterRefresh(ok)
    /\ loopThread' = IF LoopAfterRefresh(ok) = "token" THEN "loop" ELSE "none"
    /\ UNCHANGED <<jobs, task, genRes, metaAi, now, submitted, lookup, mediaVars, lateVars,
                   bld, call, auth, client, dec, upl, dep, token, req>>

\* The token after a call of extract_access_token_from_page: "new" a token
\* is installed; "none" (None) and "raise" keep the existing one.
TokenAfter(tok, o) == IF o = "new" THEN tok + 1 ELSE tok

\* After the cache refresh: the access token of the instance is extracted
\* again, or the missing instance is created again.
LoopToken(o, made) ==
    /\ loopThread = "loop"
    /\ loopPc = "token"
    /\ o \in {"new", "none", "raise"}
    /\ IF metaAi = "ready"
       THEN /\ made
            /\ o = "new" => token < MaxToken
            /\ token' = TokenAfter(token, o)
            /\ races' = IF o = "new" THEN Access("loop", "token", "write") ELSE races
            /\ metaAi' = metaAi
       ELSE /\ o # "raise"
            /\ metaAi' = IF made THEN "ready" ELSE "none"
            /\ token' = IF made /\ o = "new" THEN 1 ELSE token
            /\ races' = races
    /\ loopPc' = IF o = "new" THEN "sleeping" ELSE "kept"
    /\ loopThread' = "none"
    /\ UNCHANGED <<jobs, task, genRes, cache, now, submitted, lookup, mediaVars, lateVars,
                   bld, call, auth, client, dec, upl, dep, lock, req>>

\* await asyncio.sleep(REFRESH_SECONDS), and the next round.
LoopSleep ==
    /\ loopThread = "none"
    /\ loopPc \in {"sleeping", "kept", "failed"}
    /\ loopPc' = "start"
    /\ UNCHANGED <<jobVars, mediaVars, lateVars, bld, call, auth, client, dec, upl, dep,
                   loopThread, token, lock, req, races>>

\* _shutdown: refresh_task.cancel(); the loop ends at the await it waits in.
Shutdown ==
    /\ loopThread = "none"
    /\ loopPc \in {"boot", "start", "sleeping", "kept", "failed"}
    /\ loopPc' = "cancelled"
    /\ UNCHANGED <<jobVars, mediaVars, lateVars, bld, call, auth, client, dec, upl, dep,
                   loopThread, token, lock, req, races>>

NextServer ==
    \/ \E ep \in Endpoints : SrvRequest(ep)
    \/ \E o \in GenOutcomes : SrvGenerationReturns(o)
    \/ SrvTimeout
    \/ SrvUploadRaises
    \/ SrvRefreshAcquire
    \/ \E ok \in BOOLEAN : SrvRefreshBody(ok)
    \/ \E ok \in BOOLEAN : GetCookiesCall(ok)
    \/ Tick
    \/ \E made \in BOOLEAN, t \in {0, 1} : LoopBoot(made, t)
    \/ LoopAcquire
    \/ \E ok \in BOOLEAN : LoopRefreshBody(ok)
    \/ \E o \in {"new", "none", "raise"}, made \in BOOLEAN : LoopToken(o, made)
    \/ LoopSleep
    \/ Shutdown

SpecServer == InitServer /\ [][NextServer]_vars

\* C12: an auth failure detected while a generation request is served
\* triggers a session refresh.
C12_AuthFailureTriggersRefresh ==
    (req.pc = "answered" /\ req.authDetected) => req.refresh # "none"

RefreshAlsoFailed == "authentication failed, refresh also failed"

\* C13: when the forced refresh after a failure fails itself, the caller gets
\* the distinct error, not the generic one.
C13_DistinctRefreshFailure ==
    (req.pc = "answered" /\ req.refresh = "failed") =>
        (req.error = RefreshAlsoFailed /\ req.error # InternalServerError)

\* A step in which a refresh fails: the cache refresh of a request or of the
\* loop, or the token extraction of the loop.
RefreshFails ==
    \/ loopPc = "locked" /\ loopPc' = "failed"
    \/ req.pc = "locked" /\ req'.refresh = "failed"
    \/ loopPc = "token" /\ loopPc' = "kept" /\ metaAi = "ready"

\* C14: a refresh that fails leaves the cookie cache, its last-refresh time
\* and the bearer token of the shared client as they were.
C14_FailedRefreshKeepsCredentials ==
    [][RefreshFails => (cache' = cache /\ token' = token)]_vars

\* A refresh of the loop has failed after an earlier one succeeded, and the
\* refreshed credentials are still there.
C14_Witness ==
    /\ loopPc = "failed"
    /\ cache = [cookies |-> "refreshed", last_refresh |-> now]
    /\ token > 0

\* C17: every read and write of the shared credentials is made while holding
\* the lock.
C17_AccessesUnderLock == races = {}

\* C19: on /image and /video a timeout is answered 504 with success=false,
\* a provider failure 500 with success=false, and no failed generation is
\* answered with a 2xx status.
C19_FailureStatus ==
    (req.pc = "answered" /\ req.ep \in {"image", "video"}) =>
        /\ req.error = TimeoutErrorText => (req.status = 504 /\ ~ req.success)
        /\ req.error \in {AuthFailedError, HttpError} =>
               (req.status = 500 /\ ~ req.success)
        /\ ~ req.success => req.status \notin 200..299

\* A coroutine is inside a remote call: a request whose generation or
\* upload runs, or a credential refresh of a request or of the loop.
InRemoteCall == req.pc \in {"running", "locked"} \/ loopPc \in {"locked", "token"}

\* C23: a remote call is a suspension point: while a request or a refresh
\* waits on the provider, no coroutine keeps the event-loop thread, so every
\* other request and job can go on.
C23_RemoteCallsSuspend == InRemoteCall => loopThread = "none"

\* A step that is a call of refresh_if_needed without force.
NonForcedCall == dep'.calls = dep.calls + 1

\* C29: a non-forced refresh asked for less than the interval after the last
\* successful refresh derives nothing, and of the non-forced refreshes asked
\* for at the same instant after the interval has elapsed exactly one
\* derives.
C29_NonForcedThrottled ==
    [][NonForcedCall =>
          /\ (now - cache.last_refresh) < RefreshSeconds => dep'.last = "skipped"
          /\ dep'.last \in {"derived", "failed"} => dep.at # now]_vars

\* C30: a call without force never raises, a forced refresh that fails is
\* raised (the request is answered by the handler of unhandled exceptions),
\* and a failed iteration of the background loop leaves the loop at its
\* sleep, from which it runs again (as soon as the event-loop thread is
\* free) unless it is cancelled.
C30_LoopSurvivesFailure ==
    /\ [](/\ ~ dep.raised
          /\ loopPc # "crashed"
          /\ (req.pc = "answered" /\ req.refresh = "failed") =>
                 req.error = InternalServerError
          /\ (loopPc = "failed" /\ loopThread = "none") => ENABLED LoopSleep)
    /\ [][loopPc = "failed" => loopPc' \in {"failed", "start", "cancelled"}]_vars

\* An iteration of the loop has failed, with the seed credentials still in
\* the cache, and the loop waits in its sleep.
C30_Witness ==
    /\ loopPc = "failed"
    /\ loopThread = "none"
    /\ cache.cookies = "seed"

(***************************************************************************)
(* Loading of credentials: MetaAI.__init__ with _load_cookies_from_env and *)
(* get_cookies (main.py), and TokenCache.load_seed (api_server.py).        *)
(*                                                                         *)
(* A cookie map gives each mandatory cookie its value, "" when it is not   *)
(* there; the values tell the source they come from.                       *)
(***************************************************************************)
Mandatory == {"datr", "abra_sess"}
NoCookies == [k \in Mandatory |-> ""]
\* None, and a dict m, as values of an optional dict.
NoneArg == [given |-> FALSE, map |-> NoCookies]
Some(m) == [given |-> TRUE, map |-> m]
\* The cookies argument of MetaAI(...): None, or a dict.
ExplicitArgs == {NoneArg} \cup {Some(m) : m \in [Mandatory -> {"", "explicit"}]}
\* The META_AI_DATR and META_AI_ABRA_SESS variables, "" when unset or empty.
Environments == [Mandatory -> {"", "env"}]
\* get_cookies: the request raises, or the page gives datr or not; without a
\* Facebook login it gives no abra_sess.
PageOutcomes == {"raise", "nodatr", "datr"}

\* _load_cookies_from_env: None unless both required variables are set.
LoadCookiesFromEnv(env) ==
    IF env["datr"] # "" /\ env["abra_sess"] # "" THEN Some(env) ELSE NoneArg

\* get_cookies: always a dict with the key "datr".
GetCookies(pg) == [NoCookies EXCEPT !["datr"] = IF pg = "datr" THEN "page" ELSE ""]

\* if self.cookies: a dict given by the caller is falsy when it is empty; the
\* dict of get_cookies always has keys.
Truthy(source, c) == source = "page" \/ \E k \in Mandatory : c[k] # ""

MissingMandatory(c) == \E k \in Mandatory : c[k] = ""

\* Forced refreshes of the cache followed in one run.
MaxRefreshes == 2

\* MetaAI.__init__: the cookies the constructed client holds.
ConstructedCookies(env, explicit, pg) ==
    IF LoadCookiesFromEnv(env).given THEN LoadCookiesFromEnv(env).map
    ELSE IF explicit.given THEN explicit.map
    ELSE GetCookies(pg)

\* TokenCache.load_seed: RuntimeError when a required variable is missing.
LoadSeedUnchecked(env) == "loaded"
LoadSeedOutcome(env) == IF MissingMandatory(env) THEN "raised" ELSE "loaded"

InitClient ==
    /\ JobsIdle
    /\ MediaIdle
    /\ LateIdle
    /\ bld = BldIdle
    /\ call = CallIdle
    /\ auth = AuthIdle
    /\ ServerIdle
    /\ dec = DecIdle
    /\ upl = UplIdle
    /\ client \in [pc : {"new"}, explicit : ExplicitArgs, env : Environments,
                   cookies : {NoCookies}, source : {"none"}, netCalls : {0},
                   error : {"none"}, token : {0}, seed : {"new"},
                   cache : {NoCookies}, refreshes : {0}, lastRefresh : {"none"}]

\* MetaAI.__init__, the choice of self.cookies.
ClientLoadCookies(pg) ==
    /\ client.pc = "new"
    /\ pg \in PageOutcomes
    /\ LET e == LoadCookiesFromEnv(client.env) IN
         IF e.given
         THEN /\ pg = "datr"
              /\ client' = [client EXCEPT !.pc = "loaded", !.cookies = e.map,
                                          !.source = "env"]
         ELSE IF client.explicit.given
         THEN /\ pg = "datr"
              /\ client' = [client EXCEPT !.pc = "loaded",
                                          !.cookies = client.explicit.map,
                                          !.source = "explicit"]
         ELSE IF pg = "raise"
         THEN client' = [client EXCEPT !.pc = "raised", !.error = "network",
                                       !.netCalls = @ + 1]
         ELSE client' = [client EXCEPT !.pc = "loaded", !.cookies = GetCookies(pg),
                                       !.source = "page", !.netCalls = @ + 1]
    /\ UNCHANGED <<jobVars, mediaVars, lateVars, bld, call, auth, serverVars, dec, upl>>

\* MetaAI.__init__, the rest: with cookies, the access token is extracted
\* from the page (t = 0: the extraction failed); GenerationAPI is created.
ClientExtractToken(t) ==
    /\ client.pc = "loaded"
    /\ t \in {0, 1}
    /\ IF Truthy(client.source, client.cookies)
       THEN client' = [client EXCEPT !.pc = "constructed", !.token = t,
                                     !.netCalls = @ + 1]
       ELSE /\ t = 0
            /\ client' = [client EXCEPT !.pc = "constructed"]
    /\ UNCHANGED <<jobVars, mediaVars, lateVars, bld, call, auth, serverVars, dec, upl>>

\* TokenCache.load_seed: the cache takes the non-empty variables of the
\* environment unless a required one is missing.
LoadSeed ==
    /\ client.pc # "idle"
    /\ client.seed = "new"
    /\ client' = [client EXCEPT !.seed = LoadSeedOutcome(client.env),
                                !.cache = IF LoadSeedOutcome(client.env) = "loaded"
                                          THEN client.env ELSE @]
    /\ UNCHANGED <<jobVars, mediaVars, lateVars, bld, call, auth, serverVars, dec, upl>>

\* TokenCache.refresh_if_needed(force=True) on the seeded cache: a client is
\* constructed from a copy of the cached cookies and its cookies are cached;
\* when the construction raises (ok = FALSE) the cache keeps what it has.
CacheRefresh(ok) ==
    /\ client.seed = "loaded"
    /\ client.refreshes < MaxRefreshes
    /\ client' = [client EXCEPT
                     !.cache = IF ok
                               THEN ConstructedCookies(client.env, Some(client.cache),
                                                       "datr")
                               ELSE @,
                     !.refreshes = @ + 1,
                     !.lastRefresh = IF ok THEN "ok" ELSE "failed"]
    /\ UNCHANGED <<jobVars, mediaVars, lateVars, bld, call, auth, serverVars, dec, upl>>

NextClient ==
    \/ \E pg \in PageOutcomes : ClientLoadCookies(pg)
    \/ \E t \in {0, 1} : ClientExtractToken(t)
    \/ LoadSeed
    \/ \E ok \in BOOLEAN : CacheRefresh(ok)

SpecClient == InitClient /\ [][NextClient]_vars

\* C15: when a mandatory cookie is still missing after the sources were
\* consulted, the construction of the client has failed with a configuration
\* error and without a network call.
C15_MissingTokensFailFast ==
    (/\ client.pc \in {"loaded", "constructed", "raised"}
     /\ MissingMandatory(client.cookies)) =>
        (client.pc = "raised" /\ client.error = "configuration" /\ client.netCalls = 0)

\* C16: cookies passed explicitly are the ones the client uses, whatever the
\* environment holds.
C16_ExplicitFirst ==
    (client.pc \in {"loaded", "constructed"} /\ client.explicit.given) =>
        (client.cookies = client.explicit.map /\ client.source = "explicit")

\* A remote call of the constructed client is under way or was made.
ClientCalledRemote == client.pc = "constructed" /\ client.netCalls > 0

\* C31: once the cache was seeded, its cookies hold a non-empty datr and a
\* non-empty abra_sess after any sequence of successful and failed refreshes,
\* and the client makes no remote call with a mandatory cookie missing.
C31_SeededCacheKeepsMandatory ==
    client.seed = "loaded" =>
        /\ ~ MissingMandatory(client.cache)
        /\ ClientCalledRemote => ~ MissingMandatory(client.cookies)

\* The cache went through a successful and then a failed refresh, and the
\* client called the provider.
C31_Witness ==
    /\ client.seed = "loaded"
    /\ client.refreshes = 2
    /\ client.lastRefresh = "failed"
    /\ client.cache = client.env
    /\ ClientCalledRemote

(***************************************************************************)
(* The response decoder: GenerationAPI._parse_response with                *)
(* _parse_multipart_response and _parse_sse_response (generation.py).      *)
(*                                                                         *)
(* A body is a sequence of pieces: the parts of a multipart body, the data *)
(* lines of an event stream, the one document of a JSON body. A piece is   *)
(* "data" (a JSON object with a "data" member that holds something),       *)
(* "nulldata" (a JSON object whose "data" member is null or empty),        *)
(* "nodata" (a JSON object without one) or "bad" (not JSON).               *)
(***************************************************************************)
MaxPieces == 2

Pieces == {"data", "nulldata", "nodata", "bad"}
Transports == {"json", "multipart", "sse"}
DecStatusCodes == {200, 500}

ErrorValue(hasStatus, hasExcerpt) ==
    [kind |-> "error", status |-> hasStatus, excerpt |-> hasExcerpt]
DecodedValue == [kind |-> "value", status |-> FALSE, excerpt |-> FALSE]
SseValue == [kind |-> "value", status |-> TRUE, excerpt |-> FALSE]
Raised == [kind |-> "raised", status |-> FALSE, excerpt |-> FALSE]

\* response.json() on the whole text: a body of one JSON document decodes;
\* an empty text, text that is not JSON, and several pieces do not.
ResponseJson(body) ==
    IF Len(body) = 1 /\ body[1] # "bad" THEN DecodedValue ELSE Raised

\* _parse_multipart_response
ParseMultipartResponse(boundary, body) ==
    IF ~ boundary THEN ResponseJson(body)
    ELSE IF \E k \in DOMAIN body : body[k] = "data"
         THEN DecodedValue
         ELSE ResponseJson(body)

\* _parse_multipart_response, the loop over the parts: the index of the part
\* kept in result['data'], 0 while it is None. A part that is not JSON is
\* passed over; a part is kept when none is kept yet and parsed.get('data')
\* is truthy.
RECURSIVE KeepFirstData(_, _, _)
KeepFirstData(body, k, kept) ==
    IF k > Len(body) THEN kept
    ELSE KeepFirstData(body, k + 1,
                       IF kept = 0 /\ body[k] = "data" THEN k ELSE kept)

\* The part _parse_multipart_response returns as result['data'], 0 when it
\* returns no such result.
MultipartCanonical(boundary, body) ==
    IF boundary THEN KeepFirstData(body, 1, 0) ELSE 0

\* _parse_sse_response: a data line that is not JSON is skipped; the result
\* carries status_code.
ParseSseResponse(body) == SseValue

\* _parse_response
ParseResponse(status, transport, boundary, body) ==
    IF body = << >> \/ status >= 400
    THEN ErrorValue(TRUE, body # << >>)
    ELSE IF transport = "multipart" THEN ParseMultipartResponse(boundary, body)
    ELSE IF transport = "sse" THEN ParseSseResponse(body)
    ELSE IF ResponseJson(body) = Raised
         THEN ErrorValue(FALSE, TRUE)
         ELSE ResponseJson(body)

InitDecoder ==
    /\ JobsIdle
    /\ MediaIdle
    /\ LateIdle
    /\ bld = BldIdle
    /\ call = CallIdle
    /\ auth = AuthIdle
    /\ ServerIdle
    /\ client = ClientIdle
    /\ upl = UplIdle
    /\ dec \in [pc : {"received"}, status : DecStatusCodes, transport : Transports,
                boundary : BOOLEAN, body : SeqsUpTo(Pieces, MaxPieces),
                result : {DecodedValue}, canonical : {0}]
    /\ dec.boundary => dec.transport = "multipart"

Decode ==
    /\ dec.pc = "received"
    /\ dec' = [dec EXCEPT !.pc = "decoded",
                          !.result = ParseResponse(dec.status, dec.transport,
                                                   dec.boundary, dec.body),
                          !.canonical = IF dec.body # << >> /\ dec.status < 400
                                           /\ dec.transport = "multipart"
                                        THEN MultipartCanonical(dec.boundary, dec.body)
                                        ELSE 0]
    /\ UNCHANGED <<jobVars, mediaVars, lateVars, bld, call, auth, serverVars, client, upl>>

NextDecoder == Decode

SpecDecoder == InitDecoder /\ [][NextDecoder]_vars

\* No piece of the body is JSON.
Undecodable(body) == body # << >> /\ \A k \in DOMAIN body : body[k] = "bad"

\* C18: the decoder lets no exception escape, whatever the status, the
\* transport and the body; for a non-success status or an empty body it
\* returns an error value with the status and, when there is a body, an
\* excerpt of it; for an undecodable body it returns a value.
C18_DecoderNeverRaises ==
    dec.pc = "decoded" =>
        /\ dec.result.kind # "raised"
        /\ (dec.status >= 400 \/ dec.body = << >>) =>
               /\ dec.result.kind = "error"
               /\ dec.result.status
               /\ dec.body # << >> => dec.result.excerpt
        /\ Undecodable(dec.body) => dec.result.kind \in {"error", "value"}

\* The JSON of the piece contains a "data" key.
HasDataKey(piece) == piece \in {"data", "nulldata"}

\* A multipart response with a declared boundary was handed to the
\* multipart decoder.
MultipartDecoded ==
    /\ dec.pc = "decoded"
    /\ dec.transport = "multipart" /\ dec.boundary
    /\ dec.status < 400 /\ dec.body # << >>

\* C33: for a multipart response the decode is not aborted by a section that
\* fails to parse, and the canonical result is the first section, in body
\* order, whose JSON contains a data key.
C33_FirstDataSectionCanonical ==
    MultipartDecoded =>
        /\ dec.result.kind # "raised"
        /\ \A k \in DOMAIN dec.body :
              (HasDataKey(dec.body[k]) /\ \A i \in 1..(k - 1) : ~ HasDataKey(dec.body[i]))
                  => dec.canonical = k

(***************************************************************************)
(* Image upload: MetaAI.upload_image (main.py) and                         *)
(* ImageUploader.upload_image (image_upload.py).                           *)
(***************************************************************************)
MaxUploadRetries == 3

\* upload_image(self, file_path, max_retries=3)
DefaultMaxRetries == 3

\* The caller goes through the client (MetaAI.upload_image) or uses an
\* ImageUploader of its own.
UploadEntries == {"client", "uploader"}
\* The file at file_path: an image, a file of another type, no file, or a
\* file that cannot be opened for reading.
UploadFiles == {"image", "text", "missing", "unreadable"}
\* The provider's answer to one POST, or the exception of the POST.
UploadOutcomes == {"ok", "nomedia", "412retriable", "412final", "412text",
                   "5xx", "4xx", "timeout", "exception"}
FinalOutcomes == {"ok", "nomedia", "412final"}

UploadSuccess == [kind |-> "success", reason |-> "media_id"]
UploadFailure(why) == [kind |-> "failure", reason |-> why]
UploadRaised(why) == [kind |-> "raised", reason |-> why]
NoUploadResult == [kind |-> "none", reason |-> "none"]

\* The failure returned when outcome o ends the upload.
FailureOf(o) ==
    CASE o = "nomedia" -> UploadFailure("no media_id")
      [] o \in {"412retriable", "412final"} -> UploadFailure("rejected, classified")
      [] o = "412text" -> UploadFailure("rejected")
      [] o = "timeout" -> UploadFailure("timeout")
      [] OTHER -> UploadFailure("error")

\* wait_time = 2 ** (attempt - 1)
WaitTime(a) == 2 ^ (a - 1)

\* ImageUploader.__init__(self, session, cookies) takes two arguments.
UploaderInitArity == 2
\* ImageUploader(self.session, self.cookies, self.access_token)
ClientPassesArguments == 3

\* ImageUploader.upload_image before its retry loop.
UploadChecks(u) ==
    IF ~ u.ecto THEN [u EXCEPT !.pc = "done", !.result = UploadFailure("missing token")]
    ELSE IF u.file = "missing"
    THEN [u EXCEPT !.pc = "done", !.result = UploadFailure("file not found")]
    ELSE IF u.file = "text"
    THEN [u EXCEPT !.pc = "done", !.result = UploadFailure("invalid type")]
    ELSE IF u.file = "unreadable"
    THEN [u EXCEPT !.pc = "raised", !.result = UploadRaised("OSError")]
    ELSE [u EXCEPT !.pc = "attempt", !.attempt = 1]

InitUpload ==
    /\ JobsIdle
    /\ MediaIdle
    /\ LateIdle
    /\ bld = BldIdle
    /\ call = CallIdle
    /\ auth = AuthIdle
    /\ ServerIdle
    /\ client = ClientIdle
    /\ dec = DecIdle
    /\ upl \in [pc : {"new"}, entry : UploadEntries, ecto : BOOLEAN,
                file : UploadFiles, max : 1..MaxUploadRetries, attempt : {0},
                slept : {<< >>}, last : {"none"}, result : {NoUploadResult}]
    /\ upl.entry = "client" => upl.max = DefaultMaxRetries

\* The call: through the client the construction of the uploader comes
\* first; then the checks of ImageUploader.upload_image.
UploadCall ==
    /\ upl.pc = "new"
    /\ upl' = IF upl.entry = "client" /\ ClientPassesArguments # UploaderInitArity
              THEN [upl EXCEPT !.pc = "raised", !.result = UploadRaised("TypeError")]
              ELSE UploadChecks(upl)
    /\ UNCHANGED <<jobVars, mediaVars, lateVars, bld, call, auth, serverVars, client, dec>>

\* One pass of the retry loop with the answer o.
UploadAttempt(o) ==
    /\ upl.pc = "attempt"
    /\ o \in UploadOutcomes
    /\ upl' = IF o = "ok"
              THEN [upl EXCEPT !.pc = "done", !.last = o, !.result = UploadSuccess]
              ELSE IF o \in FinalOutcomes \/ upl.attempt >= upl.max
              THEN [upl EXCEPT !.pc = "done", !.last = o, !.result = FailureOf(o)]
              ELSE [upl EXCEPT !.attempt = @ + 1, !.last = o,
                               !.slept = Append(@, WaitTime(upl.attempt))]
    /\ UNCHANGED <<jobVars, mediaVars, lateVars, bld, call, auth, serverVars, client, dec>>

NextUpload ==
    \/ UploadCall
    \/ \E o \in UploadOutcomes : UploadAttempt(o)

SpecUpload == InitUpload /\ [][NextUpload]_vars

\* C20: an upload through the client ends by returning a value, a success or
\* a structured failure; it never raises to the caller.
C20_UploadReturns ==
    (upl.pc \in {"done", "raised"} /\ upl.entry = "client") =>
        (upl.pc = "done" /\ upl.result.kind \in {"success", "failure"})

\* The outcomes after which the upload may be sent again, and the provider's
\* rejections after which it may not.
RetriableOutcomes == {"412retriable", "5xx", "timeout"}
Rejections == {"412final", "4xx"}

\* The retry loop sends the next request.
SendsAgain == upl.pc = "attempt" /\ upl'.pc = "attempt" /\ upl'.attempt = upl.attempt + 1

\* C38: the uploader sends at most max_retries requests; it sends again only
\* after a retriable outcome (a 412 marked retriable, a 5xx status, a
\* timeout) and after waiting 2^(attempt-1) seconds; after a rejection that
\* is not retriable it returns a failure without sending again.
C38_RetriesOnlyRetriable ==
    /\ [](upl.pc # "idle" => upl.attempt <= upl.max)
    /\ [][SendsAgain => /\ upl'.last \in RetriableOutcomes
                        /\ upl'.slept = Append(upl.slept, 2 ^ (upl.attempt - 1))]_vars
    /\ [][(upl.pc = "attempt" /\ upl'.last \in Rejections /\ upl' # upl) =>
              (upl'.pc = "done" /\ upl'.result.kind = "failure")]_vars

(***************************************************************************)
(* The request builder: GenerationAPI._build_base_variables and the part   *)
(* of generate_image / generate_video that completes the payload           *)
(* (generation.py).                                                        *)
(*                                                                         *)
(* A prompt is a sequence of characters. An orientation argument is None   *)
(* or a string: at most one word, written in some letter case, with or     *)
(* without spaces before and after it.                                     *)
(***************************************************************************)
MaxPrompt == 2

PromptChars == {"a", " "}
Prompts == SeqsUpTo(PromptChars, MaxPrompt) \ {<< >>}

\* The values the provider accepts, and other words a caller may pass.
OrientationEnum == {"vertical", "landscape", "square"}
OrientationWords == OrientationEnum \cup {"horizontal", "diagonal"}
NoneOrientation ==
    [given |-> FALSE, word |-> "", casing |-> "upper", lead |-> FALSE, trail |-> FALSE]
OrientationArgs ==
    {NoneOrientation} \cup
    {o \in [given : {TRUE}, word : OrientationWords \cup {""}, casing : Casings,
            lead : BOOLEAN, trail : BOOLEAN] :
        o.word = "" => (o.casing = "upper" /\ ~ o.trail)}

\* The string literal "VERTICAL", "LANDSCAPE", ...
Literal(w) ==
    [given |-> TRUE, word |-> w, casing |-> "upper", lead |-> FALSE, trail |-> FALSE]

\* str.upper() and str.strip() on an orientation string.
Upper(o) == [o EXCEPT !.casing = "upper"]
Strip(o) == [o EXCEPT !.lead = FALSE, !.trail = FALSE]

\* if not orientation: None and the empty string.
Falsy(o) == ~ o.given \/ (o.word = "" /\ ~ o.lead /\ ~ o.trail)

\* _normalize_orientation
NormalizeOrientation(o) ==
    IF Falsy(o) THEN Literal("vertical")
    ELSE IF Strip(Upper(o)) = Literal("horizontal") THEN Literal("landscape")
    ELSE Strip(Upper(o))

\* str.strip() on a text: the spaces at both ends are removed.
RECURSIVE LStripText(_)
LStripText(s) == IF s # << >> /\ Head(s) = " " THEN LStripText(Tail(s)) ELSE s
RECURSIVE RStripText(_)
RStripText(s) ==
    IF s # << >> /\ s[Len(s)] = " " THEN RStripText(SubSeq(s, 1, Len(s) - 1)) ELSE s
StripText(s) == RStripText(LStripText(s))

\* content = f"{content_prefix} {prompt}".strip() if content_prefix else prompt
Content(prefix, prompt) ==
    IF prefix # << >> THEN StripText(prefix \o <<" ">> \o prompt) ELSE prompt

\* The keyword options a caller may pass in its dictionary.
OptionKeys == {"conversation_id", "media_ids", "max_attempts"}
\* kwargs.pop('max_attempts', 15); kwargs.pop('wait_seconds', 2)
PoppedKeys == {"max_attempts", "wait_seconds"}

NotSent == [given |-> FALSE, word |-> "absent", casing |-> "upper",
            lead |-> FALSE, trail |-> FALSE]
NoPayload == [operation |-> "none", content |-> << >>, paramsPrompt |-> << >>,
              orientation |-> NotSent, conversationId |-> "none",
              attachmentsV2 |-> "none"]

\* The variables dictionary returned by _build_base_variables.
BuildBaseVariables(prompt, operation, prefix, kwargs) ==
    [operation |-> operation,
     content |-> Content(prefix, prompt),
     paramsPrompt |-> prompt,
     orientation |-> NotSent,
     conversationId |-> IF "conversation_id" \in kwargs THEN "given" ELSE "uuid4",
     attachmentsV2 |-> IF "media_ids" \in kwargs THEN "media_ids" ELSE "empty"]

\* The variables of the payload generate_image / generate_video post.
Payload(kind, prompt, orientation, kwargs) ==
    IF kind = "image"
    THEN [BuildBaseVariables(prompt, "TEXT_TO_IMAGE", << >>, kwargs)
             EXCEPT !.orientation = NormalizeOrientation(orientation)]
    ELSE BuildBaseVariables(prompt, "TEXT_TO_VIDEO", <<"Animate">>, kwargs)

InitBuilder ==
    /\ JobsIdle
    /\ MediaIdle
    /\ LateIdle
    /\ auth = AuthIdle
    /\ ServerIdle
    /\ client = ClientIdle
    /\ dec = DecIdle
    /\ upl = UplIdle
    /\ call = CallIdle
    /\ bld \in [pc : {"given"}, kind : {"image", "video"}, prompt : Prompts,
                orientation : OrientationArgs, opts : SUBSET OptionKeys,
                kwargs : {{}}, out : {NoPayload}]

\* generate_image(prompt, orientation, **opts) / generate_video(prompt, **opts)
\* up to the POST: the call binds kwargs to a new dictionary holding the
\* caller's options, and the payload is built from it.
BuildRequest ==
    /\ bld.pc = "given"
    /\ bld' = [bld EXCEPT !.pc = "posted", !.kwargs = bld.opts,
                          !.out = Payload(bld.kind, bld.prompt, bld.orientation, bld.opts)]
    /\ UNCHANGED <<jobVars, mediaVars, lateVars, auth, serverVars, client, dec, upl, call>>

\* After the POST: when the answer holds media ids, the polling parameters
\* are popped from kwargs before the resolution loop is called.
BuildFinish(polls) ==
    /\ bld.pc = "posted"
    /\ bld' = [bld EXCEPT !.pc = "returned",
                          !.kwargs = IF polls THEN bld.kwargs \ PoppedKeys ELSE bld.kwargs]
    /\ UNCHANGED <<jobVars, mediaVars, lateVars, auth, serverVars, client, dec, upl, call>>

NextBuilder ==
    \/ BuildRequest
    \/ \E polls \in BOOLEAN : BuildFinish(polls)

SpecBuilder == InitBuilder /\ [][NextBuilder]_vars

\* text holds the characters of p, in order and side by side.
HoldsPrompt(text, p) ==
    \E i \in 0..(Len(text) - Len(p)) : SubSeq(text, i + 1, i + Len(p)) = p

\* The fields of the built variables that hold the prompt.
PromptFields(out, p) ==
    {f \in {"content", "paramsPrompt"} : HoldsPrompt(out[f], p)}

\* C21: for a non-empty prompt the built request holds the prompt in exactly
\* one field, and the call leaves the caller's option dictionary as it was.
C21_PromptOnceNoMutation ==
    /\ [](bld.pc \in {"posted", "returned"} =>
              Cardinality(PromptFields(bld.out, bld.prompt)) = 1)
    /\ [][bld'.opts = bld.opts]_vars

\* C22: the orientation sent to the provider is a member of the enumeration,
\* whatever the caller passed.
C22_OrientationInEnum ==
    (bld.pc \in {"posted", "returned"} /\ bld.kind = "image") =>
        \E w \in OrientationEnum : bld.out.orientation = Literal(w)

(***************************************************************************)
(* The remote calls of generation.py and html_scraper.py, each with what   *)
(* the calling code does with the response before anything is decoded.     *)
(***************************************************************************)
\* The POST of generate_image and its second POST with the alternate
\* doc_id, the POST of generate_video, fetch_media_by_id, fetch_conversation,
\* fetch_media_status, and the GET of fetch_conversation_html.
CallSites == {"image_submit", "image_retry", "video_submit", "media_poll",
              "conversation", "media_status", "page"}
CallStatusCodes == StatusCodes \cup {400}

\* generate_image after its first POST: the auth check, then the retry with
\* the alternate doc_id on status 400, then raise_for_status.
HandleImageSubmit(status, body) ==
    IF CheckResponseForAuthError(status, body) THEN "auth_failure"
    ELSE IF status = 400 THEN "retry"
    ELSE IF status >= 400 THEN "http_error"
    ELSE "decoded"

\* generate_video after its POST: the auth check, then raise_for_status.
HandleVideoSubmit(status, body) ==
    IF CheckResponseForAuthError(status, body) THEN "auth_failure"
    ELSE IF status >= 400 THEN "http_error"
    ELSE "decoded"

\* response.raise_for_status() inside try / except Exception: an error
\* status becomes the value {"error": ...} (None for the page), which the
\* polling loops take as an attempt that found nothing.
HandleFetch(status, body) == IF status >= 400 THEN "not_ready" ELSE "data"

\* What the calling code makes of the response of a call at the site.
HandleResponse(site, status, body) ==
    CASE site = "image_submit" -> HandleImageSubmit(status, body)
      [] site = "video_submit" -> HandleVideoSubmit(status, body)
      [] site = "image_retry" -> IF status >= 400 THEN "http_error" ELSE "decoded"
      [] OTHER -> HandleFetch(status, body)

InitCalls ==
    /\ JobsIdle
    /\ MediaIdle
    /\ LateIdle
    /\ auth = AuthIdle
    /\ ServerIdle
    /\ client = ClientIdle
    /\ dec = DecIdle
    /\ upl = UplIdle
    /\ bld = BldIdle
    /\ call \in [pc : {"answered"}, site : CallSites \ {"image_retry"},
                 status : CallStatusCodes, body : SeqsUpTo(Words, MaxBody),
                 outcome : {"none"}]

\* The calling code receives the response.
CallHandle ==
    /\ call.pc = "answered"
    /\ call' = [call EXCEPT !.pc = "handled",
                            !.outcome = HandleResponse(call.site, call.status, call.body)]
    /\ UNCHANGED <<jobVars, mediaVars, lateVars, auth, serverVars, client, dec, upl, bld>>

\* generate_image posts again with the alternate doc_id, and is answered.
CallRetry(status, body) ==
    /\ call.pc = "handled"
    /\ call.outcome = "retry"
    /\ call' = [pc |-> "answered", site |-> "image_retry", status |-> status,
                body |-> body, outcome |-> "none"]
    /\ UNCHANGED <<jobVars, mediaVars, lateVars, auth, serverVars, client, dec, upl, bld>>

NextCalls ==
    \/ CallHandle
    \/ \E st \in CallStatusCodes, b \in SeqsUpTo(Words, MaxBody) : CallRetry(st, b)

SpecCalls == InitCalls /\ [][NextCalls]_vars

\* C27: at every call site a response that the auth check detects (status
\* 403 or an indicator in the body) is reported as an authentication
\* failure.
C27_AuthCheckedEverywhere ==
    (call.pc = "handled" /\ CheckResponseForAuthError(call.status, call.body)) =>
        call.outcome = "auth_failure"

(***************************************************************************)
(* JobStore under concurrent coroutines (api_server.py): create, _update   *)
(* and get, each a statement at a time, with the lock they take.           *)
(*                                                                         *)
(* Coroutine p of StoreTasks serves one POST /video/async and runs its     *)
(* job: create, set_running, then set_result or set_error. The reader      *)
(* serves GET /video/jobs/{id}. A coroutine can be suspended where it      *)
(* awaits the lock; the model lets the others run between any two          *)
(* statements, which includes every interleaving of the event loop.        *)
(***************************************************************************)
MaxStoreTasks == 2
MaxStoreClock == 1

StoreTasks == 1..MaxStoreTasks
StoreReader == MaxStoreTasks + 1
StoreProcs == StoreTasks \cup {StoreReader}
\* The value of JobStore._lock when no coroutine holds it.
LockFree == 0

StoreOps == {"set_running", "set_result", "set_error"}
StoredResult == GenerateVideoNew(Null, <<UrlOf("a")>>)
StoredError == "Video generation failed"

\* self._jobs[job_id].copy(update=fields) with the fields of set_running,
\* set_result and set_error.
CopyUpdateStatusOnly(rec, op) ==
    [rec EXCEPT !.status = CASE op = "set_running" -> "running"
                             [] op = "set_result" -> "succeeded"
                             [] OTHER -> "failed"]
CopyUpdate(rec, op) ==
    CASE op = "set_running" -> [rec EXCEPT !.status = "running"]
      [] op = "set_result" -> [rec EXCEPT !.status = "succeeded",
                                          !.result = StoredResult,
                                          !.error = NoError]
      [] OTHER -> [rec EXCEPT !.status = "failed", !.error = StoredError]

\* self._jobs[job_id] = job
StorePut(js, j, rec) == [k \in DOMAIN js \cup {j} |-> IF k = j THEN rec ELSE js[k]]

\* The operations a task may start after its last one.
NextOps(last) ==
    CASE last = "create" -> {"set_running"}
      [] last = "set_running" -> {"set_result", "set_error"}
      [] OTHER -> {}

\* The local variables of a coroutine that is in no call of the store.
NoLocal == NewJob(0)
NotRead == [found |-> FALSE, job |-> NewJob(0)]

notStore == <<jobVars, mediaVars, earlyVars, sse, corr, wrap, vreq, chat, xtr>>

InitStore ==
    /\ JobsIdle
    /\ MediaIdle
    /\ EarlyIdle
    /\ sse = SseIdle /\ corr = CorrIdle /\ wrap = WrapIdle /\ vreq = VreqIdle
    /\ chat = ChatIdle /\ xtr = XtrIdle
    /\ store = [jobs |-> << >>,
                lock |-> LockFree,
                pc |-> [p \in StoreProcs |-> IF p = StoreReader THEN "ready" ELSE "start"],
                op |-> [p \in StoreTasks |-> "create"],
                local |-> [p \in StoreTasks |-> NoLocal],
                want |-> UnknownId,
                seen |-> NotRead,
                clock |-> 0]

\* JobStore.create, before the lock: the record is built.
StoreCreateBuild(p) ==
    /\ store.pc[p] = "start"
    /\ store' = [store EXCEPT !.local[p] = NewJob(store.clock),
                              !.pc[p] = "create_lock"]
    /\ UNCHANGED notStore

\* async with self._lock: the coroutine goes on when the lock is free.
StoreAcquire(p) ==
    /\ store.pc[p] \in {"create_lock", "update_lock", "get_lock"}
    /\ store.lock = LockFree
    /\ store' = [store EXCEPT !.lock = p,
                              !.pc[p] = CASE store.pc[p] = "create_lock" -> "create_store"
                                          [] store.pc[p] = "update_lock" -> "update_copy"
                                          [] OTHER -> "get_read"]
    /\ UNCHANGED notStore

\* JobStore.create, under the lock.
StoreCreateStore(p) ==
    /\ store.pc[p] = "create_store"
    /\ store' = [store EXCEPT !.jobs = StorePut(store.jobs, p, store.local[p]),
                              !.pc[p] = "release"]
    /\ UNCHANGED notStore

\* The end of the async with block; the call returns.
StoreRelease(p) ==
    /\ store.pc[p] = "release"
    /\ store' = IF p = StoreReader
                THEN [store EXCEPT !.lock = LockFree, !.pc[p] = "ready",
                                   !.want = UnknownId, !.seen = NotRead]
                ELSE [store EXCEPT !.lock = LockFree, !.pc[p] = "ready",
                                   !.local[p] = NoLocal]
    /\ UNCHANGED notStore

\* set_running, set_result or set_error is called: _update awaits the lock.
StoreUpdateCall(p, op) ==
    /\ p \in StoreTasks
    /\ store.pc[p] = "ready"
    /\ op \in NextOps(store.op[p])
    /\ store' = [store EXCEPT !.op[p] = op, !.pc[p] = "update_lock"]
    /\ UNCHANGED notStore

\* _update: the id is in the table; the record is copied with the fields.
StoreUpdateCopy(p) ==
    /\ store.pc[p] = "update_copy"
    /\ p \in DOMAIN store.jobs
    /\ store' = [store EXCEPT !.local[p] = CopyUpdate(store.jobs[p], store.op[p]),
                              !.pc[p] = "update_stamp"]
    /\ UNCHANGED notStore

\* _update: job.updated_at = time.time()
StoreUpdateStamp(p) ==
    /\ store.pc[p] = "update_stamp"
    /\ store' = [store EXCEPT !.local[p].updated_at = store.clock,
                              !.pc[p] = "update_store"]
    /\ UNCHANGED notStore

\* _update: self._jobs[job_id] = job
StoreUpdateStore(p) ==
    /\ store.pc[p] = "update_store"
    /\ store' = [store EXCEPT !.jobs = StorePut(store.jobs, p, store.local[p]),
                              !.pc[p] = "release"]
    /\ UNCHANGED notStore

\* GET /video/jobs/{id}: jobs.get(id) awaits the lock.
StoreGetCall(j) ==
    /\ store.pc[StoreReader] = "ready"
    /\ j \in StoreTasks
    /\ store' = [store EXCEPT !.want = j, !.pc[StoreReader] = "get_lock"]
    /\ UNCHANGED notStore

\* JobStore.get, under the lock.
StoreGetRead ==
    /\ store.pc[StoreReader] = "get_read"
    /\ store' = [store EXCEPT !.seen = JobStoreGet(store.jobs, store.want),
                              !.pc[StoreReader] = "release"]
    /\ UNCHANGED notStore

StoreTick ==
    /\ store.clock < MaxStoreClock
    /\ store' = [store EXCEPT !.clock = @ + 1]
    /\ UNCHANGED notStore

NextStore ==
    \/ \E p \in StoreTasks : StoreCreateBuild(p)
    \/ \E p \in StoreProcs : StoreAcquire(p)
    \/ \E p \in StoreTasks : StoreCreateStore(p)
    \/ \E p \in StoreProcs : StoreRelease(p)
    \/ \E p \in StoreTasks, op \in StoreOps : StoreUpdateCall(p, op)
    \/ \E p \in StoreTasks : StoreUpdateCopy(p)
    \/ \E p \in StoreTasks : StoreUpdateStamp(p)
    \/ \E p \in StoreTasks : StoreUpdateStore(p)
    \/ \E j \in StoreTasks : StoreGetCall(j)
    \/ StoreGetRead
    \/ StoreTick

SpecStore == InitStore /\ [][NextStore]_vars

\* The coroutine is inside an async with self._lock block.
InCritical(p) ==
    store.pc[p] \in {"create_store", "update_copy", "update_stamp", "update_store",
                     "get_read", "release"}

\* A record as create or one whole update leaves it.
WholeRecord(r) ==
    /\ r.updated_at >= r.created_at
    /\ CASE r.status = "pending" ->
              r.result = NoResult /\ r.error = NoError /\ r.updated_at = r.created_at
         [] r.status = "running" -> r.result = NoResult /\ r.error = NoError
         [] r.status = "succeeded" -> r.result = StoredResult /\ r.error = NoError
         [] OTHER -> r.status = "failed" /\ r.result = NoResult /\ r.error = StoredError

\* C32: create, update and read of the job table exclude each other; a step
\* of one job's update neither changes nor removes another job's record; and
\* every record in the table or handed to a reader is a whole one: as create
\* left it or with all the fields of an update applied.
C32_JobTableExclusive ==
    /\ [](/\ \A p \in StoreProcs : InCritical(p) => store.lock = p
          /\ \A j \in DOMAIN store.jobs : WholeRecord(store.jobs[j])
          /\ store.seen.found => WholeRecord(store.seen.job))
    /\ [][\A j \in DOMAIN store.jobs :
            /\ j \in DOMAIN store'.jobs
            /\ store'.jobs[j] # store.jobs[j] =>
                  /\ store.pc[j] = "update_store"
                  /\ store'.jobs[j] = store.local[j]]_vars

\* A reader was handed the succeeded record of one job while the task of
\* another job waits for the lock with an update.
C32_Witness ==
    /\ store.seen.found
    /\ store.seen.job.status = "succeeded"
    /\ \E q \in StoreTasks : q # store.want /\ store.pc[q] = "update_lock"
    /\ store.lock # LockFree

(***************************************************************************)
(* The event-stream decoder: GenerationAPI._parse_sse_response             *)
(* (generation.py), one data line at a time.                               *)
(*                                                                         *)
(* A data line is "bad" (not JSON), "other" (JSON without a "data"         *)
(* member), "null" (JSON whose "data" member is null, as in                *)
(* {"data": null, "errors": [...]}), or a message event: JSON with         *)
(* data.sendMessageStream, which may carry a streamingState and a media    *)
(* placeholder. A placeholder is written as its id.                        *)
(***************************************************************************)
MaxLines == 2

StreamStates == {"STREAMING", "OVERALL_DONE"}
\* "absent": the event has no streamingState member.
EventStates == StreamStates \cup {"absent"}
\* "none": the event has no images / videos.
EventMedia == MediaIds \cup {"none"}
MessageEvents == [kind : {"message"}, state : EventStates, media : EventMedia]
PlainEvent(k) == [kind |-> k, state |-> "absent", media |-> "none"]
DataLines == MessageEvents \cup {PlainEvent(k) : k \in {"bad", "other", "null"}}

\* result at the start of _parse_sse_response; None is "None".
SseStart == [kind |-> "value", streaming_state |-> "None", objects |-> << >>,
             events |-> 0]
\* The value of the outer except.
SseError == [kind |-> "error", streaming_state |-> "None", objects |-> << >>,
             events |-> 0]

\* msg.get('streamingState', 'UNKNOWN')
StreamingStateOf(e) == IF e.state = "absent" THEN "UNKNOWN" ELSE e.state

\* if img not in result['image_objects']: result['image_objects'].append(img)
AppendNew(objs, e) ==
    IF e.media = "none" \/ e.media \in Range(objs) THEN objs ELSE Append(objs, e.media)

\* One data line: json.loads raising JSONDecodeError is caught in the loop;
\* 'sendMessageStream' in data['data'] raises TypeError when data['data'] is
\* null, which the outer except turns into the error value.
SseLine(r, e) ==
    CASE e.kind = "bad" -> r
      [] e.kind = "other" -> [r EXCEPT !.events = @ + 1]
      [] e.kind = "null" -> SseError
      [] OTHER -> [r EXCEPT !.events = @ + 1,
                            !.streaming_state = StreamingStateOf(e),
                            !.objects = AppendNew(@, e)]

notSse == <<jobVars, mediaVars, earlyVars, store, corr, wrap, vreq, chat, xtr>>

InitSse ==
    /\ JobsIdle
    /\ MediaIdle
    /\ EarlyIdle
    /\ store = StoreIdle /\ corr = CorrIdle /\ wrap = WrapIdle /\ vreq = VreqIdle
    /\ chat = ChatIdle /\ xtr = XtrIdle
    /\ sse \in [pc : {"decoding"}, lines : SeqsUpTo(DataLines, MaxLines),
                next : {1}, result : {SseStart}]

\* The loop body for the next data line.
SseStep ==
    /\ sse.pc = "decoding"
    /\ sse.next <= Len(sse.lines)
    /\ LET r == SseLine(sse.result, sse.lines[sse.next]) IN
         sse' = [sse EXCEPT !.result = r,
                            !.next = @ + 1,
                            !.pc = IF r.kind = "error" THEN "done" ELSE @]
    /\ UNCHANGED notSse

\* return result
SseReturn ==
    /\ sse.pc = "decoding"
    /\ sse.next > Len(sse.lines)
    /\ sse' = [sse EXCEPT !.pc = "done"]
    /\ UNCHANGED notSse

NextSse == SseStep \/ SseReturn

SpecSse == InitSse /\ [][NextSse]_vars

\* The message events of the stream, in arrival order.
MessageLines == SelectSeq(sse.lines, LAMBDA e : e.kind = "message")

\* C34: the decoder folds the data lines in arrival order into one result:
\* it returns a result whatever lines came, every placeholder revealed by a
\* message event is in it, and its streaming state is that of the last
\* message event.
C34_EventsFolded ==
    sse.pc = "done" =>
        /\ sse.result.kind = "value"
        /\ \A k \in DOMAIN MessageLines :
              MessageLines[k].media # "none" =>
                  MessageLines[k].media \in Range(sse.result.objects)
        /\ MessageLines # << >> =>
              sse.result.streaming_state =
                  StreamingStateOf(MessageLines[Len(MessageLines)])

(***************************************************************************)
(* The correlation identifiers of a request:                               *)
(* GenerationAPI._generate_unique_id and _build_base_variables, and the    *)
(* re-send of generate_image (generation.py).                              *)
(*                                                                         *)
(* uuid.uuid4() is a draw of a value never drawn before: the n-th draw is  *)
(* written n. The clock counts microseconds. The callers pass no           *)
(* identifier in kwargs, as the front-end and generate_image_new /         *)
(* generate_video_new do.                                                  *)
(***************************************************************************)
MaxRequests == 2
MaxTick == 2
\* Stands for 10**13, beyond every clock value of a run.
IdModulus == 1000

IdFields == {"conversationId", "userMessageId", "assistantMessageId", "turnId",
             "promptSessionId", "userUniqueMessageId"}

\* int(time.time() * 1000000) % (10**13)
GenerateUniqueId(t) == t % IdModulus

\* _build_base_variables: the identifiers, after n draws of uuid4 and at
\* clock value t.
BuildIds(n, t) ==
    [conversationId |-> n + 1,
     userMessageId |-> n + 2,
     assistantMessageId |-> n + 3,
     turnId |-> n + 4,
     promptSessionId |-> n + 5,
     userUniqueMessageId |-> GenerateUniqueId(t)]
UuidDraws == 5

\* payload = {"doc_id": ..., "variables": variables}
CorrPayload(doc, ids) == [doc_id |-> doc, ids |-> ids]

notCorr == <<jobVars, mediaVars, earlyVars, store, sse, wrap, vreq, chat, xtr>>

InitCorr ==
    /\ JobsIdle
    /\ MediaIdle
    /\ EarlyIdle
    /\ store = StoreIdle /\ sse = SseIdle /\ wrap = WrapIdle /\ vreq = VreqIdle
    /\ chat = ChatIdle /\ xtr = XtrIdle
    /\ corr = [clock |-> 0, fresh |-> 0, reqs |-> << >>]

\* generate_image / generate_video up to the POST: the variables are built
\* and the payload is sent.
CorrBuild(kind) ==
    /\ Len(corr.reqs) < MaxRequests
    /\ kind \in {"image", "video"}
    /\ LET ids == BuildIds(corr.fresh, corr.clock) IN
         corr' = [corr EXCEPT
                    !.fresh = @ + UuidDraws,
                    !.reqs = Append(@, [kind |-> kind, ids |-> ids, pc |-> "sent",
                                        sends |-> <<CorrPayload(kind, ids)>>])]
    /\ UNCHANGED notCorr

\* The answer to the POST of request r: generate_image sends the payload
\* again with the alternate doc_id after a 400.
CorrAnswer(r, status) ==
    /\ r \in DOMAIN corr.reqs
    /\ corr.reqs[r].pc = "sent"
    /\ status \in {200, 400}
    /\ corr' = IF status = 400 /\ corr.reqs[r].kind = "image"
               THEN [corr EXCEPT
                       !.reqs[r].pc = "resent",
                       !.reqs[r].sends =
                           Append(@, [corr.reqs[r].sends[1] EXCEPT !.doc_id = "alternate"])]
               ELSE [corr EXCEPT !.reqs[r].pc = "done"]
    /\ UNCHANGED notCorr

\* time.time() moves on by a microsecond.
CorrTick ==
    /\ corr.clock < MaxTick
    /\ corr' = [corr EXCEPT !.clock = @ + 1]
    /\ UNCHANGED notCorr

NextCorr ==
    \/ \E kind \in {"image", "video"} : CorrBuild(kind)
    \/ \E r \in 1..MaxRequests, status \in {200, 400} : CorrAnswer(r, status)
    \/ CorrTick

SpecCorr == InitCorr /\ [][NextCorr]_vars

\* C35: each correlation identifier differs between any two requests, and
\* every send of a request, the re-send included, carries the identifiers
\* the request was built with.
C35_IdentifiersUniqueAndStable ==
    /\ \A r1, r2 \in DOMAIN corr.reqs :
          r1 # r2 => \A f \in IdFields : corr.reqs[r1].ids[f] # corr.reqs[r2].ids[f]
    /\ \A r \in DOMAIN corr.reqs :
          \A k \in DOMAIN corr.reqs[r].sends : corr.reqs[r].sends[k].ids = corr.reqs[r].ids

(***************************************************************************)
(* MetaAI.generate_image_new / generate_video_new (main.py) around         *)
(* GenerationAPI.generate_image / generate_video (generation.py): from the *)
(* answer to the POST to the value handed to the caller.                   *)
(***************************************************************************)
\* What generate_image / generate_video does with the answer: it raises for
\* an answer the auth check flags and for a status of 400 or more, and
\* otherwise returns what _parse_response returns (an exception of the
\* decoder goes through).
GenerateOutcome(flagged, status, transport, boundary, body) ==
    IF flagged \/ status >= 400 THEN Raised
    ELSE ParseResponse(status, transport, boundary, body)

\* generate_image_new / generate_video_new: success is False in the except
\* branch only.
NewResult(out) ==
    [success |-> out.kind # "raised", response |-> out]

notWrap == <<jobVars, mediaVars, earlyVars, store, sse, corr, vreq, chat, xtr>>

InitWrap ==
    /\ JobsIdle
    /\ MediaIdle
    /\ EarlyIdle
    /\ store = StoreIdle /\ sse = SseIdle /\ corr = CorrIdle /\ vreq = VreqIdle
    /\ chat = ChatIdle /\ xtr = XtrIdle
    /\ wrap \in [pc : {"posted"}, kind : {"image", "video"}, flagged : BOOLEAN,
                 status : DecStatusCodes, transport : Transports,
                 boundary : BOOLEAN, body : SeqsUpTo(Pieces, MaxPieces),
                 result : {NewResult(Raised)}]
    /\ wrap.boundary => wrap.transport = "multipart"

\* The answer arrives; generate_*_new returns.
WrapReturn ==
    /\ wrap.pc = "posted"
    /\ wrap' = [wrap EXCEPT
                  !.pc = "returned",
                  !.result = NewResult(GenerateOutcome(wrap.flagged, wrap.status,
                                                       wrap.transport, wrap.boundary,
                                                       wrap.body))]
    /\ UNCHANGED notWrap

NextWrap == WrapReturn

SpecWrap == InitWrap /\ [][NextWrap]_vars

\* C36: a result with success = true wraps no decoded error value.
C36_SuccessWrapsNoError ==
    (wrap.pc = "returned" /\ wrap.result.success) => wrap.result.response.kind # "error"

(***************************************************************************)
(* A video request through the front-end: VideoRequest, /video and         *)
(* _run_video_job (api_server.py), down to the resolution loop that        *)
(* generate_video starts (generation.py).                                  *)
(***************************************************************************)
\* The largest max_attempts a request carries (the field allows 1 to 60).
MaxReqAttempts == 3

ReqWaitSeconds == {1, 5}
ReqWaitBeforePoll == {0, 10}

\* kwargs.pop('max_attempts', 12), kwargs.pop('wait_seconds', 5)
DefaultVideoAttempts == 12
DefaultVideoWait == 5

\* The keyword arguments both endpoints pass to generate_video_new.
EndpointKwargs == {"prompt", "media_ids", "attachment_metadata"}

\* kwargs.pop(key, default), the value of key being the request's.
PopOr(kwargs, key, value, default) == IF key \in kwargs THEN value ELSE default

notVreq == <<jobVars, mediaVars, earlyVars, store, sse, corr, wrap, chat, xtr>>

InitVreq ==
    /\ JobsIdle
    /\ MediaIdle
    /\ EarlyIdle
    /\ store = StoreIdle /\ sse = SseIdle /\ corr = CorrIdle /\ wrap = WrapIdle
    /\ chat = ChatIdle /\ xtr = XtrIdle
    /\ vreq \in [pc : {"received"}, ep : {"video", "video_async"},
                 max_attempts : 1..MaxReqAttempts, wait_seconds : ReqWaitSeconds,
                 wait_before_poll : ReqWaitBeforePoll,
                 loopMax : {0}, loopWait : {0}, attempt : {0}, queries : {0},
                 resolved : {FALSE}]

\* The endpoint calls generate_video_new; generate_video submits and, with
\* video ids in the answer, starts fetch_video_urls_by_media_id.
VreqGenerate ==
    /\ vreq.pc = "received"
    /\ vreq' = [vreq EXCEPT
                  !.pc = "polling",
                  !.loopMax = PopOr(EndpointKwargs, "max_attempts", vreq.max_attempts,
                                    DefaultVideoAttempts),
                  !.loopWait = PopOr(EndpointKwargs, "wait_seconds", vreq.wait_seconds,
                                     DefaultVideoWait)]
    /\ UNCHANGED notVreq

\* One pass of the loop of fetch_video_urls_by_media_id: one media-by-id
\* query; the loop ends when the videos are resolved or after max_attempts.
VreqPoll(found) ==
    /\ vreq.pc = "polling"
    /\ vreq.attempt < vreq.loopMax
    /\ found \in BOOLEAN
    /\ vreq' = [vreq EXCEPT
                  !.attempt = @ + 1,
                  !.queries = @ + 1,
                  !.resolved = found,
                  !.pc = IF found \/ vreq.attempt + 1 >= vreq.loopMax
                         THEN "done" ELSE @]
    /\ UNCHANGED notVreq

NextVreq ==
    \/ VreqGenerate
    \/ \E found \in BOOLEAN : VreqPoll(found)

SpecVreq == InitVreq /\ [][NextVreq]_vars

\* C37: the polling parameters of the request bound its resolution loop: the
\* loop makes no more media-by-id queries than the request's max_attempts.
C37_RequestBoundsPolling ==
    vreq.pc \in {"polling", "done"} => vreq.queries <= vreq.max_attempts

(***************************************************************************)
(* The chat prompt and its retries: MetaAI.prompt and MetaAI.retry         *)
(* (main.py).                                                              *)
(***************************************************************************)
MAX_RETRIES == 3
\* time.sleep(3)
RetrySleep == 3

\* The answer to one POST of the message: a valid response, a response
\* without a usable message (or, when streaming, one that starts with
\* errors), a response the auth check flags, or an exception of the POST.
ChatOutcomes == {"valid", "invalid", "auth", "exception"}

\* retry: if attempts <= MAX_RETRIES
RetryAllowed(attempts) == attempts <= MAX_RETRIES

notChat == <<jobVars, mediaVars, earlyVars, store, sse, corr, wrap, vreq, xtr>>

InitChat ==
    /\ JobsIdle
    /\ MediaIdle
    /\ EarlyIdle
    /\ store = StoreIdle /\ sse = SseIdle /\ corr = CorrIdle /\ wrap = WrapIdle
    /\ vreq = VreqIdle /\ xtr = XtrIdle
    /\ chat \in [pc : {"prompt"}, stream : BOOLEAN, image : BOOLEAN,
                 authed : BOOLEAN, attempts : {0}, sends : {0}, slept : {0},
                 error : {"none"}]

\* prompt: the message is posted and the answer is examined.
ChatSend(o) ==
    /\ chat.pc = "prompt"
    /\ o \in ChatOutcomes
    /\ chat' = [chat EXCEPT
                  !.sends = @ + 1,
                  !.pc = CASE o = "valid" -> "returned"
                           [] o = "invalid" -> "retry"
                           [] OTHER -> "raised",
                  !.error = CASE o = "auth" -> "Authentication failed"
                              [] o = "exception" -> "exception"
                              [] OTHER -> @]
    /\ UNCHANGED notChat

\* retry: sleep and call prompt with attempts + 1, or raise.
ChatRetry ==
    /\ chat.pc = "retry"
    /\ chat' = IF RetryAllowed(chat.attempts)
               THEN [chat EXCEPT !.pc = "prompt", !.attempts = @ + 1,
                                 !.slept = @ + RetrySleep]
               ELSE [chat EXCEPT !.pc = "raised",
                                 !.error = "Unable to obtain a valid response"]
    /\ UNCHANGED notChat

NextChat ==
    \/ \E o \in ChatOutcomes : ChatSend(o)
    \/ ChatRetry

SpecChat == InitChat /\ [][NextChat]_vars

\* C39: a prompt that obtains no valid response is sent again at most
\* MAX_RETRIES times after the first attempt, and then an error is raised.
C39_RetriesBounded ==
    /\ chat.pc # "idle" => chat.sends <= 1 + MAX_RETRIES
    /\ (chat.pc = "retry" /\ chat.sends = 1 + MAX_RETRIES) => ~ RetryAllowed(chat.attempts)

(***************************************************************************)
(* GenerationAPI.extract_media_urls (generation.py).                       *)
(*                                                                         *)
(* A response holds its message edges under "data", in the first part with *)
(* data of "parts", or at the top; its parts may also hold no data. An     *)
(* edge carries one image node, one video node, no media, or a content     *)
(* that is null. An image node has uri and url, a video node video_url,    *)
(* uri and one progressive URL; each is a URL or Null.                     *)
(***************************************************************************)
MaxEdges == 3

XUrls == {"u1", "u2"}
XUrlOrNull == XUrls \cup {Null}
ImageEdges == [kind : {"image"}, first : XUrlOrNull, second : XUrlOrNull, prog : {Null}]
VideoEdges == [kind : {"video"}, first : XUrlOrNull, second : XUrlOrNull,
               prog : XUrlOrNull]
BareEdge(k) == [kind |-> k, first |-> Null, second |-> Null, prog |-> Null]
Edges == ImageEdges \cup VideoEdges \cup {BareEdge("empty"), BareEdge("nullcontent")}
Shapes == {"data", "parts", "parts_nodata", "bare"}

\* a or b
Either(a, b) == IF a # Null THEN a ELSE b

Truthy1(u) == IF u # Null THEN <<u>> ELSE << >>

\* The URLs one edge adds: img.get('uri') or img.get('url') for an image;
\* video.get('video_url') or video.get('uri'), then the progressive URL,
\* for a video.
EdgeUrls(e) ==
    CASE e.kind = "image" -> Truthy1(Either(e.first, e.second))
      [] e.kind = "video" -> Truthy1(Either(e.first, e.second)) \o Truthy1(e.prog)
      [] OTHER -> << >>

\* The loop over the edges inside the try: node.get('content', {}) gives
\* None for a null content and content.get raises AttributeError, which ends
\* the loop with the URLs collected so far.
RECURSIVE CollectUrls(_, _, _)
CollectUrls(edges, k, urls) ==
    IF k > Len(edges) THEN urls
    ELSE IF edges[k].kind = "nullcontent" THEN urls
    ELSE CollectUrls(edges, k + 1, urls \o EdgeUrls(edges[k]))

\* Deduplicate while preserving order.
RECURSIVE Unique(_, _)
Unique(urls, acc) ==
    IF urls = << >> THEN acc
    ELSE Unique(Tail(urls),
                IF Head(urls) \in Range(acc) THEN acc ELSE Append(acc, Head(urls)))

\* extract_media_urls
ExtractMediaUrls(shape, edges) ==
    IF shape = "parts_nodata" THEN << >>
    ELSE Unique(CollectUrls(edges, 1, << >>), << >>)

notXtr == <<jobVars, mediaVars, earlyVars, store, sse, corr, wrap, vreq, chat>>

InitXtr ==
    /\ JobsIdle
    /\ MediaIdle
    /\ EarlyIdle
    /\ store = StoreIdle /\ sse = SseIdle /\ corr = CorrIdle /\ wrap = WrapIdle
    /\ vreq = VreqIdle /\ chat = ChatIdle
    /\ xtr \in [pc : {"called"}, shape : Shapes, edges : SeqsUpTo(Edges, MaxEdges),
                result : {<< >>}]

Extract ==
    /\ xtr.pc = "called"
    /\ xtr' = [xtr EXCEPT !.pc = "returned",
                          !.result = ExtractMediaUrls(xtr.shape, xtr.edges)]
    /\ UNCHANGED notXtr

NextXtr == Extract

SpecXtr == InitXtr /\ [][NextXtr]_vars

\* The media URLs present in the message edges, in order of appearance.
RECURSIVE PresentUrls(_)
PresentUrls(edges) ==
    IF edges = << >> THEN << >>
    ELSE EdgeUrls(Head(edges)) \o PresentUrls(Tail(edges))

\* Every edge has the structure the extraction expects.
WellFormed(edges) == \A k \in DOMAIN edges : edges[k].kind # "nullcontent"

\* C40: the extraction returns every media URL present in the message edges,
\* each once and in order of first appearance; for a response without media
\* or without the expected structure it returns an empty list.
C40_EveryUrlOnceInOrder ==
    (xtr.pc = "returned" /\ xtr.shape # "parts_nodata") =>
        \/ xtr.result = Unique(PresentUrls(xtr.edges), << >>)
        \/ ~ WellFormed(xtr.edges) /\ xtr.result = << >>

====
